---- MODULE Spec2Model ----
(***************************************************************************)
(* Model of the response cache, the entity fetchers, the batch count       *)
(* resolver and the progressive loader of the BGS sensor dashboard         *)
(* (src/src/hooks/useSensorData.ts, lines 622-1224: the bgs-api module;    *)
(* src/src/hooks/useProgressiveSensorData.ts).                             *)
(*                                                                         *)
(* Time is Date.now() in milliseconds.  The JavaScript Map apiCache is a   *)
(* sequence of entries in insertion order (Map iteration order), which is  *)
(* what Array.from(apiCache.entries()) and the stable sort of              *)
(* setCachedData see.                                                      *)
(***************************************************************************)
EXTENDS Integers, Sequences, FiniteSets, TLC

VARIABLES
  now,        \* Date.now()
  apiCache,   \* the module-level Map, as a sequence of entries
  lastOp,     \* the direct cache operation of the last step, if any
  netCount,   \* number of HTTP requests issued so far (calls of fetch)
  calls,      \* the fetcher invocations awaiting their response
  lastCall,   \* the fetcher invocation that returned in the last step, if any
  hist,       \* history: request -> its last successful network completion
  sig,        \* two requests and the cache keys built for them
  cfg,        \* the remote service's sensors and the sessions the page starts
  hooks,      \* the state of each useProgressiveSensorData instance
  sessions,   \* the fetchBasicSensors invocations, in order of their start
  pipe        \* the sensor page's observations, its chart and its summary

vars == <<now, apiCache, lastOp, netCount, calls, lastCall, hist, sig, cfg, hooks,
          sessions, pipe>>

fetchState  == <<calls, lastCall, hist>>
pureState   == <<sig, pipe>>
loaderState == <<cfg, hooks, sessions>>

-----------------------------------------------------------------------------
(* Program constants *)

MaxCacheSize    == 100      \* if (apiCache.size > 100)
EvictCount      == 20       \* for (let i = 0; i < 20; i++)
DefaultTtl      == 60000    \* ttlMs: number = 60000
SensorsTtl      == 300000   \* listSensors
LocationsTtl    == 300000   \* listLocations
DatastreamsTtl  == 120000   \* getSensorDatastreams
ObservationsTtl == 60000    \* getDatastreamObservations
CountTtl        == 300000   \* getSensorDatastreamCount
DateRangeTtl    == 300000   \* getDatastreamDateRange
StatsTtl        == 300000   \* getDashboardStats
DefaultLimit    == 100      \* limit: number = 100

(* Bounds of the model *)

TickMs     == 60000    \* the clock advances in steps of this many ms
MaxTicks   == 2        \* number of clock steps explored
MaxRequests == 2       \* HTTP requests per behaviour
OtherLimit == 50       \* a second value of the limit argument
MaxSigId   == 11       \* ids of the requests whose keys are compared
PrefillAge == 40       \* initial entries per clock step of age
MaxThings  == 25       \* sensors the service lists to a batch count resolution
FreshCounts == 3       \* sensors whose cached count is unexpired at the start
StaleCounts == 2       \* sensors whose cached count has expired at the start
FailEvery  == 8        \* one sensor in this many has a count request that can fail
DashThings == 6        \* sensors the service lists to the dashboard
LoaderThings == 2      \* sensors the service lists to a loader that is refetched
DashSessions == 2      \* load sessions of the dashboard's two hook instances
MaxSessions == 2       \* load sessions of one hook instance
MaxOvertakes == 1      \* responses of a session that arrive before an earlier request's
LiveThings == 1        \* sensors the service lists to a loader whose requests are all answered

-----------------------------------------------------------------------------
(* Values.  JavaScript values are tagged records so that values of         *)
(* different types can be compared.                                        *)

Null   == [tag |-> "null"]
Num(n) == [tag |-> "num", n |-> n]

\* JavaScript truthiness of the values the cache holds: null and 0 are falsy,
\* every object is truthy.
Truthy(v) == v.tag # "null" /\ ~(v.tag = "num" /\ v.n = 0)

Max(a, b) == IF a >= b THEN a ELSE b

-----------------------------------------------------------------------------
(* The Map apiCache *)

Keys(c) == {c[i].key : i \in 1..Len(c)}

HasKey(c, k) == \E i \in 1..Len(c) : c[i].key = k

IndexOf(c, k) == CHOOSE i \in 1..Len(c) : c[i].key = k

\* Map.prototype.get, for a key that is present
MapGet(c, k) == c[IndexOf(c, k)]

\* Map.prototype.delete: removes the entry, the others keep their order
MapDelete(c, k) == SelectSeq(c, LAMBDA e : e.key # k)

\* Map.prototype.set: an existing key keeps its position, a new key is appended
MapSet(c, e) ==
  IF HasKey(c, e.key)
  THEN [i \in 1..Len(c) |-> IF c[i].key = e.key THEN e ELSE c[i]]
  ELSE Append(c, e)

-----------------------------------------------------------------------------
(* getCachedData (useSensorData.ts 670-677) *)

\* (mutant) the subtraction the wrong way round: no entry ever expires
IsFreshSwapped(e, t) == e.timestamp - t < e.ttl

\* cached && Date.now() - cached.timestamp < cached.ttl
IsFresh(e, t) == t - e.timestamp < e.ttl

CacheHit(c, k, t) == HasKey(c, k) /\ IsFresh(MapGet(c, k), t)

\* the value returned
getCachedDataResult(c, k, t) == IF CacheHit(c, k, t) THEN MapGet(c, k).data ELSE Null

\* the cache left behind: apiCache.delete(key) on every miss
getCachedDataCache(c, k, t) == IF CacheHit(c, k, t) THEN c ELSE MapDelete(c, k)

-----------------------------------------------------------------------------
(* setCachedData (useSensorData.ts 679-696) *)

\* (mutant) the comparator the other way round: the newest entries come first
SortsBeforeNewest(c, i, j) ==
  \/ c[i].timestamp > c[j].timestamp
  \/ (c[i].timestamp = c[j].timestamp /\ i <= j)

\* entries.sort((a, b) => a[1].timestamp - b[1].timestamp): entry i comes before
\* entry j.  The sort is stable, so ties keep the Map's insertion order.
SortsBefore(c, i, j) ==
  \/ c[i].timestamp < c[j].timestamp
  \/ (c[i].timestamp = c[j].timestamp /\ i <= j)

\* the positions in the Map of entries[0..n-1] of the sorted array: the first of
\* the sorted array is the entry that sorts before all others, and so on
RECURSIVE SortedPrefix(_, _, _)
SortedPrefix(c, taken, n) ==
  IF n = 0 \/ taken = 1..Len(c)
  THEN taken
  ELSE LET rest  == (1..Len(c)) \ taken
           first == CHOOSE i \in rest : \A j \in rest : SortsBefore(c, i, j)
       IN  SortedPrefix(c, taken \cup {first}, n - 1)

\* the keys of entries[0..19]
OldestKeys(c) == {c[i].key : i \in SortedPrefix(c, {}, EvictCount)}

\* (mutant) the loop stops one entry short
EvictOldestButOne(c) ==
  LET oldest == {c[i].key : i \in SortedPrefix(c, {}, EvictCount - 1)}
  IN  SelectSeq(c, LAMBDA e : e.key \notin oldest)

\* for (let i = 0; i < 20; i++) apiCache.delete(entries[i][0])
EvictOldest(c) ==
  LET oldest == OldestKeys(c)
  IN  SelectSeq(c, LAMBDA e : e.key \notin oldest)

\* (mutant) the size test made after the insert is counted twice
NeedsEvictionLate(c) == Len(c) > MaxCacheSize + 1

\* if (apiCache.size > 100)
NeedsEviction(c) == Len(c) > MaxCacheSize

\* (mutant) an entry that is there is kept: the first store wins
setCachedDataKeepFirst(c, k, d, ttlMs, t) ==
  IF HasKey(c, k) THEN c
  ELSE MapSet(IF NeedsEviction(c) THEN EvictOldest(c) ELSE c,
              [key |-> k, data |-> d, timestamp |-> t, ttl |-> ttlMs])

\* apiCache.set(key, { data, timestamp: Date.now(), ttl: ttlMs }), after the
\* eviction
setCachedData(c, k, d, ttlMs, t) ==
  MapSet(IF NeedsEviction(c) THEN EvictOldest(c) ELSE c,
         [key |-> k, data |-> d, timestamp |-> t, ttl |-> ttlMs])

-----------------------------------------------------------------------------
(* Request signatures (cache keys) *)

\* A request: the fetcher and its arguments.  An omitted (undefined) date and
\* an empty one are both the empty string: every use the code makes of a date
\* (startDate || 'nostart', if (startDate), startDate || endDate) treats the
\* two alike.  Arguments a fetcher does not take are 0 and "".
Req(fn, id, limit, startDate, endDate) ==
  [fn |-> fn, id |-> id, limit |-> limit, startDate |-> startDate, endDate |-> endDate]

ReqSensors         == Req("listSensors", 0, 0, "", "")
ReqLocations       == Req("listLocations", 0, 0, "", "")
ReqDatastreams(id) == Req("getSensorDatastreams", id, 0, "", "")
ReqObs(id, limit, startDate, endDate) ==
  Req("getDatastreamObservations", id, limit, startDate, endDate)
ReqCount(id)       == Req("getSensorDatastreamCount", id, 0, "", "")
ReqDateRange(id)   == Req("getDatastreamDateRange", id, 0, "", "")
ReqStats           == Req("getDashboardStats", 0, 0, "", "")

\* x || fallback, for strings
OrElse(x, fallback) == IF x = "" THEN fallback ELSE x

countKey(sensorId) == "datastream_count_" \o ToString(sensorId)

\* (mutant) the observations key without the limit
observationsKeyNoLimit(id, limit, startDate, endDate) ==
  "observations_" \o ToString(id) \o "_"
     \o OrElse(startDate, "nostart") \o "_" \o OrElse(endDate, "noend")

\* `observations_${datastreamId}_${limit}_${startDate || 'nostart'}_${endDate || 'noend'}`
observationsKey(id, limit, startDate, endDate) ==
  "observations_" \o ToString(id) \o "_" \o ToString(limit) \o "_"
     \o OrElse(startDate, "nostart") \o "_" \o OrElse(endDate, "noend")

\* the cacheKey each fetcher builds
cacheKey(r) ==
  CASE r.fn = "listSensors"               -> "sensors_basic"
    [] r.fn = "listLocations"             -> "locations"
    [] r.fn = "getSensorDatastreams"      -> "datastreams_" \o ToString(r.id)
    [] r.fn = "getDatastreamObservations" ->
         observationsKey(r.id, r.limit, r.startDate, r.endDate)
    [] r.fn = "getSensorDatastreamCount"  -> countKey(r.id)
    [] r.fn = "getDatastreamDateRange"    -> "daterange_" \o ToString(r.id)
    [] r.fn = "getDashboardStats"         -> "dashboard_stats"

\* the TTL each fetcher stores its result with
cacheTtl(r) ==
  CASE r.fn = "listSensors"               -> SensorsTtl
    [] r.fn = "listLocations"             -> LocationsTtl
    [] r.fn = "getSensorDatastreams"      -> DatastreamsTtl
    [] r.fn = "getDatastreamObservations" -> ObservationsTtl
    [] r.fn = "getSensorDatastreamCount"  -> CountTtl
    [] r.fn = "getDatastreamDateRange"    -> DateRangeTtl
    [] r.fn = "getDashboardStats"         -> StatsTtl

-----------------------------------------------------------------------------
(* Initial caches.  Every entry of an initial cache is one that earlier    *)
(* successful count resolutions have stored: PrefillAge of them per clock  *)
(* step, the oldest first.  The program reaches a cache of MaxCacheSize    *)
(* entries by resolving the counts of that many sensors.                   *)

PrefillTime(i) == ((i - 1) \div PrefillAge) * TickMs

PrefillCache(n) ==
  [i \in 1..n |-> [key |-> countKey(i), data |-> Num(i % 3),
                   timestamp |-> PrefillTime(i), ttl |-> CountTtl]]

StartTime(n) == IF n = 0 THEN 0 ELSE PrefillTime(n)

NoOp == [op |-> "none"]
NoCall == [pc |-> "none"]
NoSig == [computed |-> FALSE]
NoPipe == [pc |-> "none"]
NoCfg == [things |-> 0, stale |-> 0, fresh |-> 0, hooks |-> 0, sessions |-> 0]

EndTime == PrefillTime(MaxCacheSize + 1) + MaxTicks * TickMs

\* The clock advances (time passes between two events).
Tick ==
  /\ now < EndTime
  /\ now' = now + TickMs
  /\ lastOp' = NoOp
  /\ lastCall' = NoCall
  /\ UNCHANGED <<apiCache, netCount, calls, hist, pureState, loaderState>>

-----------------------------------------------------------------------------
(* The cache driven directly: any sequence of setCachedData and            *)
(* getCachedData calls.                                                    *)

ProbeKeys == {countKey(1), countKey(MaxCacheSize + 1), countKey(MaxCacheSize + 2)}
\* the values and TTLs stored: a falsy count with the short TTL, a truthy one
\* with a longer TTL
ProbeSets == {[d |-> Num(0), ttl |-> ObservationsTtl],
              [d |-> Num(1), ttl |-> DatastreamsTtl]}

CacheInit ==
  /\ \E n \in {0, MaxCacheSize} : apiCache = PrefillCache(n) /\ now = StartTime(n)
  /\ lastOp = NoOp
  /\ netCount = 0
  /\ calls = {}
  /\ lastCall = NoCall
  /\ hist = <<>>
  /\ sig = NoSig
  /\ pipe = NoPipe
  /\ cfg = NoCfg
  /\ hooks = <<>>
  /\ sessions = <<>>

CacheGet(k) ==
  /\ apiCache' = getCachedDataCache(apiCache, k, now)
  /\ lastOp' = [op |-> "get", key |-> k,
                result |-> getCachedDataResult(apiCache, k, now),
                found |-> HasKey(apiCache, k),
                age |-> IF HasKey(apiCache, k)
                        THEN now - MapGet(apiCache, k).timestamp ELSE 0,
                ttl |-> IF HasKey(apiCache, k) THEN MapGet(apiCache, k).ttl ELSE 0,
                evicted |-> FALSE]
  /\ UNCHANGED <<now, netCount, fetchState, pureState, loaderState>>

CacheSet(k, d, ttlMs) ==
  /\ apiCache' = setCachedData(apiCache, k, d, ttlMs, now)
  /\ lastOp' = [op |-> "set", key |-> k, result |-> Null,
                found |-> HasKey(apiCache, k), age |-> 0, ttl |-> ttlMs,
                evicted |-> NeedsEviction(apiCache)]
  /\ UNCHANGED <<now, netCount, fetchState, pureState, loaderState>>

CacheNext ==
  \/ Tick
  \/ \E k \in ProbeKeys : CacheGet(k)
  \/ \E k \in ProbeKeys, s \in ProbeSets : CacheSet(k, s.d, s.ttl)

CacheSpec == CacheInit /\ [][CacheNext]_vars

-----------------------------------------------------------------------------
(* Properties of the cache *)

\* C1: getCachedData never returns a value whose age exceeds the TTL it was
\* stored with, and a lookup of an entry whose age exceeds its TTL returns
\* null and removes the entry.
C1_NoStaleValue ==
  lastOp.op = "get" =>
    /\ lastOp.result # Null => lastOp.found /\ lastOp.age <= lastOp.ttl
    /\ lastOp.found /\ lastOp.age > lastOp.ttl =>
          lastOp.result = Null /\ ~HasKey(apiCache, lastOp.key)

C1_Witness ==
  /\ lastOp.op = "get" /\ lastOp.found /\ lastOp.age > lastOp.ttl
  /\ lastOp.result = Null /\ ~HasKey(apiCache, lastOp.key)

\* C2: getCachedData returns the stored value iff now - storedAt <= ttl (a
\* lookup at an age exactly equal to the TTL is a hit); otherwise it returns
\* null and the entry is removed.
C2_HitIffAgeAtMostTtl ==
  lastOp.op = "get" /\ lastOp.found =>
    IF lastOp.age <= lastOp.ttl
    THEN /\ HasKey(apiCache, lastOp.key)
         /\ lastOp.result = MapGet(apiCache, lastOp.key).data
    ELSE lastOp.result = Null /\ ~HasKey(apiCache, lastOp.key)

\* C3 (as claimed): the cache never holds more than 100 entries.
C3_AtMostMax == Len(apiCache) <= MaxCacheSize

\* C3 (amended): the cache never holds more than 101 entries: the size test
\* precedes the insert, so the entry inserted at size 100 is the 101st.
C3_AtMostMaxPlusOne == Len(apiCache) <= MaxCacheSize + 1

C3_Witness == lastOp.op = "set" /\ Len(apiCache) = MaxCacheSize + 1

-----------------------------------------------------------------------------
(* frostApiCall (useSensorData.ts 645-656) and the fetchers (699-994) *)

Str(x) == [tag |-> "str", s |-> x]

\* What the remote service does with a request: a well-formed body, a body
\* that is JSON null, a network failure (fetch rejects), a non-success HTTP
\* status, a body that is not JSON (response.json() rejects).
Outcomes == {"ok", "nullBody", "network", "http", "json"}

\* the body the service sends to request r at time t: the '@iot.id's of the
\* entities it lists and the '@iot.count' it reports.  Its data change as time
\* passes; it lists cfg.things Things when that number is set.
Payload(r, t) ==
  [items |-> IF cfg.things = 0 THEN <<t \div TickMs>> ELSE [i \in 1..cfg.things |-> i],
   count |-> (r.id + 2 + t \div TickMs) % 3]

\* the value thrown: by frostApiCall itself, or by the fetcher's own code when
\* it reads a property of a null body
Thrown(o) ==
  CASE o = "network"  -> [isError |-> TRUE, message |-> "Failed to fetch"]
    [] o = "http"     -> [isError |-> TRUE, message |-> "FROST API error: 500 Internal Server Error"]
    [] o = "json"     -> [isError |-> TRUE, message |-> "Unexpected token < in JSON"]
    [] o = "nullBody" -> [isError |-> TRUE, message |-> "Cannot read properties of null"]

\* where the exception is raised: inside frostApiCall, or while decoding
ThrowStage(o) == IF o = "nullBody" THEN "decode" ELSE "request"

FallbackMessage(r) ==
  CASE r.fn = "listSensors"               -> "Failed to fetch sensors"
    [] r.fn = "listLocations"             -> "Failed to fetch locations"
    [] r.fn = "getSensorDatastreams"      -> "Failed to fetch datastreams"
    [] r.fn = "getDatastreamObservations" -> "Failed to fetch observations"
    [] OTHER                              -> ""

\* error instanceof Error ? error.message : '<fallback>'
errorMessage(r, e) == IF e.isError THEN e.message ELSE FallbackMessage(r)

\* the decoded response of the list fetchers
Obj(r, items) == [tag |-> "obj", fn |-> r.fn, id |-> r.id, items |-> items]
Range(startDate, endDate) == [tag |-> "range", startDate |-> startDate, endDate |-> endDate]
Envelope(success, data, error) == [success |-> success, data |-> data, error |-> error]

Bare(r) == r.fn \in {"getSensorDatastreamCount", "getDatastreamDateRange"}

\* id: parseInt(thing['@iot.id']) || index + 1
sensorId(thingId, index) == IF thingId = 0 THEN index + 1 ELSE thingId

\* response.value.map((thing, index) => ({id, ..., total_datastreams: 0}))
SensorsOf(items) ==
  [i \in 1..Len(items) |-> [id |-> sensorId(items[i], i - 1), total_datastreams |-> 0]]

\* (mutant) a response that holds every matching row counts as limited
isLimitedOrEqual(returned, count) ==
  returned <= (IF count # 0 THEN count ELSE returned)

\* totalAvailable = response['@iot.count'] || observations.length;
\* isLimited = observations.length < totalAvailable
isLimited(returned, count) ==
  returned < (IF count # 0 THEN count ELSE returned)

\* { observations, datastream_id, total_count, isLimited }
ObsResult(r, body) ==
  [tag |-> "obj", fn |-> r.fn, id |-> r.id, items |-> body.items,
   isLimited |-> isLimited(Len(body.items), body.count)]

\* response.value.map(...), response['@iot.count'] || 0, phenomenonTime.split('T')[0]
Decode(r, body) ==
  CASE r.fn = "getSensorDatastreamCount" -> Num(body.count)
    [] r.fn = "listSensors"              -> Obj(r, SensorsOf(body.items))
    [] r.fn = "getDatastreamObservations" -> ObsResult(r, body)
    [] r.fn = "getDatastreamDateRange"   ->
         Range(Str(ToString(body.items[1])), Str(ToString(body.items[1])))
    [] OTHER                             -> Obj(r, body.items)

\* (mutant) the count tested like the other cached values: a cached 0 is a miss
IsHitTruthy(r, cached) == Truthy(cached)

\* if (cached) / if (cached !== null)
IsHit(r, cached) ==
  IF r.fn = "getSensorDatastreamCount" THEN cached # Null ELSE Truthy(cached)

\* return { success: true, data } / return count / return result
OkResult(r, data) == IF Bare(r) THEN data ELSE Envelope(TRUE, data, "")

\* the value returned from the catch block
FailResult(r, e) ==
  CASE r.fn = "getSensorDatastreamCount" -> Num(0)
    [] r.fn = "getDatastreamDateRange"   -> Range(Null, Null)
    [] OTHER                             -> Envelope(FALSE, Obj(r, <<>>), errorMessage(r, e))

\* fetch calls one invocation makes on a cache miss
NumRequests(r) == IF r.fn = "getDatastreamDateRange" THEN 2 ELSE 1

\* (mutant) a try block that ends before the response is decoded
TryCoversRequestOnly(r, stage) == stage = "request"

\* the try block of every fetcher spans the request and the decoding
TryCovers(r, stage) == TRUE

NoHist == [known |-> FALSE, at |-> 0, ttl |-> 0, data |-> Null, evicted |-> FALSE]

\* the history after request r stored data in cache c at time t
HistStored(h, c, r, data, t) ==
  LET gone == IF NeedsEviction(c) THEN OldestKeys(c) ELSE {}
  IN  [q \in DOMAIN h |->
         IF q = r
         THEN [known |-> TRUE, at |-> t, ttl |-> cacheTtl(r), data |-> data,
               evicted |-> FALSE]
         ELSE IF cacheKey(q) \in gone
              THEN [h[q] EXCEPT !.evicted = TRUE]
              ELSE h[q]]

\* The synchronous part of a fetcher: the cache lookup, and on a miss the
\* fetch call(s).  A hit returns at once.
StartCall(r) ==
  LET key    == cacheKey(r)
      cached == getCachedDataResult(apiCache, key, now)
      hit    == IsHit(r, cached)
      h      == hist[r]
      call   == [req |-> r,
                 pc |-> IF hit THEN "done" ELSE "waiting",
                 hit |-> hit,
                 reqs |-> IF hit THEN 0 ELSE NumRequests(r),
                 outcome |-> "none",
                 prior |-> h.known /\ now - h.at < h.ttl,
                 priorEvicted |-> h.evicted,
                 priorData |-> h.data,
                 result |-> IF hit THEN OkResult(r, cached) ELSE Null,
                 \* the call starts right after a call with the same
                 \* parameters has ended in failure
                 priorFailed |-> /\ lastCall.pc = "done"
                                 /\ lastCall.req = r
                                 /\ lastCall.outcome \in Outcomes \ {"ok"},
                 \* the calls with the same parameters that await their
                 \* response, and the number that tells it from them
                 overlaps |-> \E c \in calls : c.req = r,
                 nth |-> CHOOSE k \in 0..Cardinality(calls) :
                           /\ \A c \in calls : c.req = r => c.nth # k
                           /\ \A j \in 0..(k - 1) :
                                \E c \in calls : c.req = r /\ c.nth = j]
  IN  /\ hit \/ netCount + NumRequests(r) <= MaxRequests
      /\ apiCache' = getCachedDataCache(apiCache, key, now)
      /\ netCount' = IF hit THEN netCount ELSE netCount + NumRequests(r)
      /\ calls' = IF hit THEN calls ELSE calls \cup {call}
      /\ lastCall' = IF hit THEN call ELSE NoCall
      /\ UNCHANGED <<now, lastOp, hist, pureState, loaderState>>

\* the value a fetcher returns from its catch block, without the envelope
FailData(r, e) == IF Bare(r) THEN FailResult(r, e) ELSE FailResult(r, e).data

\* (mutant) the catch block stores the default it returns
catchStoresDefault(c, r, e, t) ==
  MapSet(c, [key |-> cacheKey(r), data |-> FailData(r, e), timestamp |-> t,
             ttl |-> cacheTtl(r)])

\* the cache after the catch block of a fetcher: it logs and returns, and
\* calls setCachedData nowhere
catchCache(c, r, e, t) == c

\* The continuation of a fetcher after its await: the response is decoded,
\* stored and returned, or the catch block builds the failure result.
Respond(c, o) ==
  LET r    == c.req
      data == Decode(r, Payload(r, now))
  IN  /\ calls' = calls \ {c}
      /\ IF o = "ok"
         THEN /\ apiCache' = setCachedData(apiCache, cacheKey(r), data, cacheTtl(r), now)
              /\ lastCall' = [c EXCEPT !.pc = "done", !.outcome = o,
                                       !.result = OkResult(r, data)]
              /\ hist' = HistStored(hist, apiCache, r, data, now)
         ELSE /\ lastCall' = IF TryCovers(r, ThrowStage(o))
                             THEN [c EXCEPT !.pc = "done", !.outcome = o,
                                            !.result = FailResult(r, Thrown(o))]
                             ELSE [c EXCEPT !.pc = "threw", !.outcome = o]
              /\ apiCache' = IF TryCovers(r, ThrowStage(o))
                             THEN catchCache(apiCache, r, Thrown(o), now)
                             ELSE apiCache
              /\ UNCHANGED hist
      /\ UNCHANGED <<now, lastOp, netCount, pureState, loaderState>>

FetchTick == Tick

FetchRequests ==
  {ReqSensors, ReqLocations, ReqDatastreams(1), ReqObs(1, DefaultLimit, "", ""),
   ReqObs(1, OtherLimit, "", ""), ReqCount(1), ReqDateRange(1)}

\* A cache of MaxCacheSize + 1 entries (the largest the program reaches): the
\* sensor list stored by an earlier listSensors call, then counts.
FetchPrefill ==
  [i \in 1..(MaxCacheSize + 1) |->
     IF i = 1
     THEN [key |-> cacheKey(ReqSensors), data |-> Obj(ReqSensors, SensorsOf(<<0>>)),
           timestamp |-> 0, ttl |-> SensorsTtl]
     ELSE PrefillCache(i)[i]]

FetchInit ==
  /\ lastOp = NoOp
  /\ netCount = 0
  /\ calls = {}
  /\ lastCall = NoCall
  /\ sig = NoSig
  /\ pipe = NoPipe
  /\ cfg = NoCfg
  /\ hooks = <<>>
  /\ sessions = <<>>
  /\ \/ /\ apiCache = <<>>
        /\ now = 0
        /\ hist = [q \in FetchRequests |-> NoHist]
     \/ /\ apiCache = FetchPrefill
        /\ now = StartTime(MaxCacheSize + 1)
        /\ hist = [q \in FetchRequests |->
                     IF q = ReqSensors
                     THEN [known |-> TRUE, at |-> 0, ttl |-> SensorsTtl,
                           data |-> Obj(ReqSensors, SensorsOf(<<0>>)), evicted |-> FALSE]
                     ELSE NoHist]

FetchNext ==
  \/ FetchTick
  \/ \E r \in FetchRequests : StartCall(r)
  \/ \E c \in calls, o \in Outcomes : Respond(c, o)

FetchSpec == FetchInit /\ [][FetchNext]_vars

-----------------------------------------------------------------------------
(* Properties of the fetchers *)

Returned == lastCall.pc \in {"done", "threw"}

\* the call returned the cached value of its earlier completion, without a request
ServedFromCache(c) ==
  c.hit /\ c.pc = "done" /\ c.reqs = 0 /\ c.result = OkResult(c.req, c.priorData)

\* C4 (as claimed): a call whose parameters an earlier call has completed
\* successfully with, started within the TTL of that completion, returns the
\* cached data and issues no network request.
C4_SecondCallCached ==
  \A c \in calls \cup {lastCall} :
    c.pc # "none" => (c.prior => ServedFromCache(c))

\* C4 (amended): the same, provided no setCachedData in between has evicted
\* the entry as one of the 20 oldest of a cache of more than 100 entries.
C4_SecondCallCachedUnlessEvicted ==
  \A c \in calls \cup {lastCall} :
    c.pc # "none" => (c.prior /\ ~c.priorEvicted => ServedFromCache(c))

\* the second of two getDatastreamObservations calls is served from the cache:
\* one request in all
C4_Witness ==
  /\ Returned /\ lastCall.req.fn = "getDatastreamObservations"
  /\ lastCall.prior /\ ServedFromCache(lastCall)
  /\ netCount = 1 /\ calls = {}

\* C6: no fetcher lets an exception reach its caller: a failed request, a
\* non-success status and an undecodable response all end the call with
\* success = false, the empty default and a non-empty error message
\* (getDatastreamDateRange: both dates null; the count: 0).
C6_NeverThrows ==
  /\ lastCall.pc # "threw"
  /\ Returned /\ lastCall.outcome \in Outcomes \ {"ok"} =>
       CASE lastCall.req.fn = "getDatastreamDateRange"   ->
              lastCall.result = Range(Null, Null)
         [] lastCall.req.fn = "getSensorDatastreamCount" ->
              lastCall.result = Num(0)
         [] OTHER -> /\ lastCall.result.success = FALSE
                     /\ lastCall.result.data = Obj(lastCall.req, <<>>)
                     /\ lastCall.result.error # ""

C6_Witness ==
  /\ Returned /\ lastCall.req.fn = "listSensors" /\ lastCall.outcome = "nullBody"
  /\ lastCall.result.success = FALSE /\ lastCall.result.error # ""

-----------------------------------------------------------------------------
(* The cache keys of two requests, compared *)

SigIds    == 1..MaxSigId
SigLimits == {OtherLimit, DefaultLimit}
\* the dates the date inputs of the pages produce (YYYY-MM-DD), and none
SigDates  == {"", "2024-01-01", "2024-01-02"}

SigRequests ==
  {ReqSensors, ReqLocations, ReqStats}
    \cup {ReqDatastreams(i) : i \in SigIds}
    \cup {ReqCount(i) : i \in SigIds}
    \cup {ReqDateRange(i) : i \in SigIds}
    \cup {ReqObs(i, l, sd, ed) : i \in SigIds, l \in SigLimits,
                                 sd \in SigDates, ed \in SigDates}

SigInit ==
  /\ \E a \in SigRequests, b \in SigRequests :
       sig = [computed |-> FALSE, a |-> a, b |-> b, keyA |-> "", keyB |-> ""]
  /\ pipe = NoPipe
  /\ now = 0
  /\ apiCache = <<>>
  /\ lastOp = NoOp
  /\ netCount = 0
  /\ calls = {}
  /\ lastCall = NoCall
  /\ hist = <<>>
  /\ cfg = NoCfg
  /\ hooks = <<>>
  /\ sessions = <<>>

\* both fetchers build their cacheKey
BuildKeys ==
  /\ ~sig.computed
  /\ sig' = [sig EXCEPT !.computed = TRUE, !.keyA = cacheKey(sig.a),
                        !.keyB = cacheKey(sig.b)]
  /\ UNCHANGED <<now, apiCache, lastOp, netCount, fetchState, loaderState, pipe>>

SigNext == BuildKeys

SigSpec == SigInit /\ [][SigNext]_vars

\* C5: the cache key is an injective function of the request: two requests get
\* the same key iff they are the same fetcher called with the same arguments
\* (for getDatastreamObservations: datastreamId, limit, startDate and endDate,
\* an omitted date differing from every given one).
C5_KeyInjective ==
  sig.computed => (sig.keyA = sig.keyB <=> sig.a = sig.b)

\* two observation requests that differ only in that one omits the start date
C5_Witness ==
  /\ sig.computed
  /\ sig.a.fn = "getDatastreamObservations" /\ sig.b.fn = "getDatastreamObservations"
  /\ sig.a.id = sig.b.id /\ sig.a.limit = sig.b.limit /\ sig.a.endDate = sig.b.endDate
  /\ sig.a.startDate = "" /\ sig.b.startDate # ""
  /\ sig.keyA # sig.keyB

-----------------------------------------------------------------------------
(* getBatchDatastreamCounts (useSensorData.ts 997-1033) *)

ChunkSize == 10     \* for (let i = 0; i < uncachedIds.length; i += 10)

\* the hook instances the dashboard mounts: useProgressiveSensorData() in
\* BGSDashboard and in the SensorTable it renders
DashHooks == 2

Min(a, b) == IF a <= b THEN a ELSE b

IdSet(ids) == {ids[i] : i \in 1..Len(ids)}

\* counts[id]: undefined (Null) when the record has no such property
CountOf(counts, id) == IF id \in DOMAIN counts THEN counts[id] ELSE Null

\* The cache after getCachedData has been called for each of the keys: every
\* call leaves the entries of the other keys alone and deletes its own key
\* unless it is a hit, so the calls in sequence delete the keys that miss.
getCachedDataAll(c, keys, t) ==
  SelectSeq(c, LAMBDA e : e.key \notin keys \/ CacheHit(c, e.key, t))

\* (mutant) the filter tests the cached count for truth: a cached 0 is a miss
FilterCachedTruthy(c, ids, t) ==
  LET cachedOf(id) == getCachedDataResult(c, countKey(id), t)
  IN  [cache    |-> getCachedDataAll(c, {countKey(id) : id \in IdSet(ids)}, t),
       counts   |-> [id \in IdSet(ids) |->
                       IF Truthy(cachedOf(id)) THEN cachedOf(id) ELSE Null],
       uncached |-> SelectSeq(ids, LAMBDA id : ~Truthy(cachedOf(id)))]

\* const uncachedIds = sensorIds.filter(...): each id is looked up; a hit puts
\* the cached count into counts, a miss keeps the id.
FilterCached(c, ids, t) ==
  LET cachedOf(id) == getCachedDataResult(c, countKey(id), t)
  IN  [cache    |-> getCachedDataAll(c, {countKey(id) : id \in IdSet(ids)}, t),
       counts   |-> [id \in IdSet(ids) |-> cachedOf(id)],
       uncached |-> SelectSeq(ids, LAMBDA id : cachedOf(id) = Null)]

\* for (let i = 0; i < uncachedIds.length; i += 10)
\*   chunks.push(uncachedIds.slice(i, i + 10))
Chunks(ids) ==
  LET starts == {i \in 0..(Len(ids) - 1) : i % ChunkSize = 0}
  IN  [k \in 1..Cardinality(starts) |->
         SubSeq(ids, (k - 1) * ChunkSize + 1, Min(k * ChunkSize, Len(ids)))]

\* chunk.map(async (sensorId) => getSensorDatastreamCount(sensorId)): every
\* call runs to its await: the cache lookup, and on a miss the fetch.  A hit
\* settles the call at once.
IssueWave(c, chunk, t) ==
  LET cachedOf(id) == getCachedDataResult(c, countKey(id), t)
      hit(id)      == IsHit(ReqCount(id), cachedOf(id))
  IN  [cache   |-> getCachedDataAll(c, {countKey(id) : id \in IdSet(chunk)}, t),
       settled |-> [id \in IdSet(chunk) |-> IF hit(id) THEN cachedOf(id) ELSE Null],
       pending |-> {id \in IdSet(chunk) : ~hit(id)}]

\* (mutant) the wave is taken as over once one of its requests has settled
AnySettled(settled) == \E id \in DOMAIN settled : settled[id] # Null

\* await Promise.all(promises): every promise of the wave has settled
AllSettled(settled) == \A id \in DOMAIN settled : settled[id] # Null

\* (mutant) if (count) counts[sensorId] = count: a count of 0 leaves no entry
MergeResultsNonZero(counts, settled) ==
  [id \in DOMAIN counts |->
     IF Truthy(CountOf(settled, id)) THEN settled[id] ELSE counts[id]]

\* results.forEach(({ sensorId, count }) => { counts[sensorId] = count })
MergeResults(counts, settled) ==
  [id \in DOMAIN counts |->
     IF CountOf(settled, id) # Null THEN settled[id] ELSE counts[id]]

\* The loop over the chunks, from the point the call has reached to its next
\* suspension: the results of a settled wave are merged and the next wave is
\* issued; after the last wave (or with no uncached id at all) the call
\* returns counts.  st = [cache, s], s the session the call belongs to.
RECURSIVE RunWaves(_, _)
RunWaves(st, t) ==
  LET s  == st.s
      cs == Chunks(s.uncached)
  IN  IF s.wave > 0 /\ ~AllSettled(s.settled)
      THEN st
      ELSE LET merged == IF s.wave > 0 THEN MergeResults(s.counts, s.settled)
                                       ELSE s.counts
           IN  IF s.wave >= Len(cs)
               THEN [st EXCEPT !.s = [s EXCEPT !.counts = merged, !.settled = <<>>,
                                               !.pc = "awaitBatch"]]
               ELSE LET chunk == cs[s.wave + 1]
                        w == IssueWave(st.cache, chunk, t)
                    IN  RunWaves(
                          [cache |-> w.cache,
                           s |-> [s EXCEPT !.counts = merged,
                                           !.wave = @ + 1,
                                           !.settled = w.settled,
                                           !.overlap = @ \/ s.pending # {},
                                           !.pending = @ \cup w.pending,
                                           !.waves = Append(@, Cardinality(w.pending)),
                                           !.sent = @ + Cardinality(w.pending),
                                           !.pc = "awaitWave"]],
                          t)

-----------------------------------------------------------------------------
(* useProgressiveSensorData (useProgressiveSensorData.ts 17-83) *)

\* the state of a hook instance before its mount effect has run
NewHook ==
  [sensors |-> <<>>, isLoadingBasic |-> TRUE, isLoadingCounts |-> FALSE,
   isComplete |-> FALSE, error |-> Null]

\* setError(null); setIsLoadingBasic(true)
onFetchStart(h) == [h EXCEPT !.error = Null, !.isLoadingBasic = TRUE]

\* (mutant) refetch clears the list
onRefetchClearList(h) ==
  [h EXCEPT !.sensors = <<>>, !.isComplete = FALSE, !.isLoadingBasic = TRUE,
            !.isLoadingCounts = FALSE, !.error = Null]

\* refetch: setIsComplete(false); setIsLoadingBasic(true);
\* setIsLoadingCounts(false); setError(null)
onRefetch(h) ==
  [h EXCEPT !.isComplete = FALSE, !.isLoadingBasic = TRUE,
            !.isLoadingCounts = FALSE, !.error = Null]

\* (mutant) the coarse list is held back until the counts are in
onListSuccessKeepLoading(h, list) == [h EXCEPT !.isLoadingCounts = TRUE]

\* setSensors(response.data.sensors); setIsLoadingBasic(false);
\* setIsLoadingCounts(true)
onListSuccess(h, list) ==
  [h EXCEPT !.sensors = list, !.isLoadingBasic = FALSE, !.isLoadingCounts = TRUE]

\* (mutant) a failed list request leaves the loader loading
onListFailureStillLoading(h, response) ==
  [h EXCEPT !.error = Str(OrElse(response.error, "Failed to fetch sensors"))]

\* setError(response.error || 'Failed to fetch sensors'); setIsLoadingBasic(false)
onListFailure(h, response) ==
  [h EXCEPT !.error = Str(OrElse(response.error, "Failed to fetch sensors")),
            !.isLoadingBasic = FALSE]

\* prevSensors.map(sensor => ({...sensor, total_datastreams: counts[sensor.id] || 0}))
enrich(prevSensors, counts) ==
  [i \in DOMAIN prevSensors |->
     [prevSensors[i] EXCEPT !.total_datastreams =
        IF Truthy(CountOf(counts, prevSensors[i].id))
        THEN CountOf(counts, prevSensors[i].id).n ELSE 0]]

\* (mutant) the pass assigns total_datastreams on the items of prevSensors
enrichInPlace(prevSensors, counts) == enrich(prevSensors, counts)

\* what the enrichment pass leaves of the items of prevSensors themselves, as
\* every other holder of the array sees them: map() builds a new array and
\* {...sensor} a new object for each item, the items are not written to
enrichLeaves(prevSensors, counts) == prevSensors

\* setSensors(prev => ...); setIsLoadingCounts(false); setIsComplete(true)
onCounts(h, counts) ==
  [h EXCEPT !.sensors = enrich(h.sensors, counts), !.isLoadingCounts = FALSE,
            !.isComplete = TRUE]

\* catch (err): setError(...); setIsLoadingBasic(false); setIsLoadingCounts(false)
onThrow(h, e) ==
  [h EXCEPT !.error = Str(IF e.isError THEN e.message ELSE "Unknown error occurred"),
            !.isLoadingBasic = FALSE, !.isLoadingCounts = FALSE]

\* (mutant) a new session cancels the sessions before it
EarlierSessionsCancelled(ss) ==
  [i \in DOMAIN ss |->
     IF ss[i].pc \in {"done", "failed", "threw"} THEN ss[i]
     ELSE [ss[i] EXCEPT !.pc = "cancelled", !.pending = {}]]

\* the sessions started before a call of fetchBasicSensors: the call keeps no
\* handle on them (no abort signal, no session tag), they go on as they are
EarlierSessions(ss) == ss

\* One run of fetchBasicSensors (a load session) of hook instance h
NewSession(h) ==
  [hook |-> h, pc |-> "awaitList", list |-> Null, ids |-> <<>>, counts |-> <<>>,
   uncached |-> <<>>, wave |-> 0, pending |-> {}, settled |-> <<>>,
   waves |-> <<>>, overlap |-> FALSE, sent |-> 0, failed |-> {}, overtaken |-> 0,
   basicSeen |-> FALSE, completeSeen |-> FALSE]

\* fetchBasicSensors up to await listSensors(): the flags are set and
\* listSensors looks the list up in the cache; on a miss it sends the request
fetchBasicSensors(h, hook) ==
  LET r      == ReqSensors
      cached == getCachedDataResult(apiCache, cacheKey(r), now)
      hit    == IsHit(r, cached)
      s      == [NewSession(h) EXCEPT
                   !.pc = IF hit THEN "listReady" ELSE "awaitList",
                   !.list = IF hit THEN OkResult(r, cached) ELSE Null]
  IN  /\ Len(sessions) < cfg.sessions
      /\ hooks' = [hooks EXCEPT ![h] = onFetchStart(hook)]
      /\ sessions' = Append(EarlierSessions(sessions), s)
      /\ apiCache' = getCachedDataCache(apiCache, cacheKey(r), now)
      /\ netCount' = IF hit THEN netCount ELSE netCount + 1
      /\ UNCHANGED <<now, lastOp, fetchState, pureState, cfg>>

\* A session whose awaited call has returned without a request in flight
\* resumes in a microtask: before any response arrives and before any event
\* handler runs.
MicrotaskPending ==
  \E i \in DOMAIN sessions : sessions[i].pc \in {"listReady", "awaitBatch"}

\* useEffect(() => { fetchBasicSensors() }, [fetchBasicSensors]): the mount
\* effect of hook instance h
Mount(h) ==
  /\ \A i \in DOMAIN sessions : sessions[i].hook # h
  /\ fetchBasicSensors(h, hooks[h])

\* refetch(), called (from an event handler) on a mounted hook instance at
\* any time
Refetch(h) ==
  /\ ~MicrotaskPending
  /\ \E i \in DOMAIN sessions : sessions[i].hook = h
  /\ fetchBasicSensors(h, onRefetch(hooks[h]))

\* fetchBasicSensors from the point listSensors has returned response (the
\* cache being c by then) to its next suspension: on success the coarse list
\* is stored and getBatchDatastreamCounts runs to its first await; otherwise
\* the error is stored.
AfterList(i, response, c) ==
  LET s == sessions[i]
      h == s.hook
  IN  IF response.success
      THEN \E list \in {response.data.items} :
           \E ids \in {[k \in 1..Len(list) |-> list[k].id]},
              hook1 \in {onListSuccess(hooks[h], list)} :
           \E f \in {FilterCached(c, ids, now)} :
           \E st \in {RunWaves(
                        [cache |-> f.cache,
                         s |-> [s EXCEPT !.list = response, !.ids = ids,
                                         !.counts = f.counts,
                                         !.uncached = f.uncached,
                                         !.basicSeen = /\ ~hook1.isLoadingBasic
                                                       /\ hook1.sensors = list]],
                        now)} :
             /\ hooks' = [hooks EXCEPT ![h] = hook1]
             /\ sessions' = [sessions EXCEPT ![i] = st.s]
             /\ apiCache' = st.cache
             /\ netCount' = netCount + (st.s.sent - s.sent)
      ELSE /\ hooks' = [hooks EXCEPT ![h] = onListFailure(@, response)]
           /\ sessions' = [sessions EXCEPT ![i] = [s EXCEPT !.list = response,
                                                            !.pc = "failed"]]
           /\ apiCache' = c
           /\ UNCHANGED netCount

\* the hook's catch block, entered with the value e thrown by an awaited call
Caught(i, e) ==
  /\ hooks' = [hooks EXCEPT ![sessions[i].hook] = onThrow(@, e)]
  /\ sessions' = [sessions EXCEPT ![i].pc = "threw"]

\* The response to the list request of session i arrives: listSensors decodes
\* and stores it (or builds the failure result), and fetchBasicSensors resumes.
ListRespond(i, o) ==
  LET r    == ReqSensors
      data == Decode(r, Payload(r, now))
  IN  /\ ~MicrotaskPending
      /\ sessions[i].pc = "awaitList"
      /\ IF o = "ok"
         THEN AfterList(i, OkResult(r, data),
                        setCachedData(apiCache, cacheKey(r), data, cacheTtl(r), now))
         ELSE IF TryCovers(r, ThrowStage(o))
              THEN AfterList(i, FailResult(r, Thrown(o)), apiCache)
              ELSE Caught(i, Thrown(o)) /\ UNCHANGED <<apiCache, netCount>>
      /\ UNCHANGED <<now, lastOp, fetchState, pureState, cfg>>

\* fetchBasicSensors resumes with the list that listSensors found in the cache
ListCached(i) ==
  /\ sessions[i].pc = "listReady"
  /\ AfterList(i, sessions[i].list, apiCache)
  /\ UNCHANGED <<now, lastOp, fetchState, pureState, cfg>>

\* the outcomes of the count request of a sensor: the requests of some sensors
\* can fail
CountOutcomes(id) == IF id % FailEvery = 1 THEN Outcomes ELSE {"ok"}

\* a response that arrives while an earlier request of the session (one for a
\* lower sensor id) is still awaited
Overtakes(s, id) == \E x \in s.pending : x < id

\* the requests of session s whose response can arrive next: responses arrive
\* in the order of the requests, but for MaxOvertakes of them, which arrive
\* just before the response to the request before theirs
NextResponses(s) ==
  {id \in s.pending :
     Overtakes(s, id) => /\ s.overtaken < MaxOvertakes
                         /\ Cardinality({x \in s.pending : x < id}) = 1}

\* The response to the count request of sensor id of session i arrives:
\* getSensorDatastreamCount stores and returns the count (or returns 0 from
\* its catch block); once Promise.all has resolved, getBatchDatastreamCounts
\* goes on to its next suspension.
CountRespond(i, id, o) ==
  LET s  == sessions[i]
      r  == ReqCount(id)
      ok == o = "ok"
  IN  /\ ~MicrotaskPending
      /\ s.pc = "awaitWave"
      /\ id \in s.pending
      /\ IF ok \/ TryCovers(r, ThrowStage(o))
         THEN \E count \in {IF ok THEN Decode(r, Payload(r, now))
                                  ELSE FailResult(r, Thrown(o))} :
              \E c \in {IF ok THEN setCachedData(apiCache, cacheKey(r), count,
                                                 cacheTtl(r), now)
                              ELSE apiCache} :
              \E s1 \in {[s EXCEPT !.pending = @ \ {id},
                                   !.overtaken = IF Overtakes(s, id) THEN @ + 1 ELSE @,
                                   !.settled = IF id \in DOMAIN @
                                               THEN [@ EXCEPT ![id] = count] ELSE @,
                                   !.failed = IF ok THEN @ ELSE @ \cup {id}]} :
              \E st \in {RunWaves([cache |-> c, s |-> s1], now)} :
                /\ sessions' = [sessions EXCEPT ![i] = st.s]
                /\ apiCache' = st.cache
                /\ netCount' = netCount + (st.s.sent - s.sent)
                /\ UNCHANGED hooks
         ELSE /\ Caught(i, Thrown(o))
              /\ UNCHANGED <<apiCache, netCount>>
      /\ UNCHANGED <<now, lastOp, fetchState, pureState, cfg>>

\* fetchBasicSensors resumes with the counts getBatchDatastreamCounts returned:
\* the sensors are enriched and the load is complete
Enrich(i) ==
  LET s     == sessions[i]
      hook1 == onCounts(hooks[s.hook], s.counts)
      \* the array the hook holds is the one listSensors stored and returned:
      \* a cache entry that holds it sees what the pass does to its items
      shared(e) == /\ e.data.tag = "obj"
                   /\ e.data.fn = "listSensors"
                   /\ e.data.items = hooks[s.hook].sensors
  IN  /\ s.pc = "awaitBatch"
      /\ hooks' = [hooks EXCEPT ![s.hook] = hook1]
      /\ sessions' = [sessions EXCEPT ![i] = [s EXCEPT !.pc = "done",
                                                       !.completeSeen = hook1.isComplete]]
      /\ apiCache' = [k \in DOMAIN apiCache |->
                        IF shared(apiCache[k])
                        THEN [apiCache[k] EXCEPT !.data.items =
                                enrichLeaves(hooks[s.hook].sensors, s.counts)]
                        ELSE apiCache[k]]
      /\ UNCHANGED <<now, lastOp, netCount, fetchState, pureState, cfg>>

-----------------------------------------------------------------------------
(* The loader and the batch count resolver at work *)

\* the moment the loads run at
LoaderTime == CountTtl

\* the count a cached entry of the initial cache holds for sensor i
PrefilledCount(i) == i % 3

\* The counts earlier resolutions have left in the cache: those of the first
\* stale sensors stored CountTtl before t (expired at t), those of the next
\* fresh sensors stored one clock step before t.
CountsCache(stale, fresh, t) ==
  [i \in 1..(stale + fresh) |->
     [key |-> countKey(i), data |-> Num(PrefilledCount(i)),
      timestamp |-> IF i <= stale THEN t - CountTtl ELSE t - TickMs,
      ttl |-> CountTtl]]

LoaderInit(c) ==
  /\ cfg = c
  /\ now = LoaderTime
  /\ apiCache = CountsCache(c.stale, c.fresh, LoaderTime)
  /\ hooks = [h \in 1..c.hooks |-> NewHook]
  /\ sessions = <<>>
  /\ lastOp = NoOp
  /\ netCount = 0
  /\ calls = {}
  /\ lastCall = NoCall
  /\ hist = <<>>
  /\ sig = NoSig
  /\ pipe = NoPipe

\* One hook instance, one load: the resolver over MaxThings sensors with an
\* empty cache, with some counts cached (expired and unexpired), and over
\* sensors whose counts are all cached.
BatchCfgs ==
  {[things |-> MaxThings, stale |-> 0, fresh |-> 0, hooks |-> 1, sessions |-> 1],
   [things |-> MaxThings, stale |-> StaleCounts, fresh |-> FreshCounts,
    hooks |-> 1, sessions |-> 1],
   [things |-> FreshCounts, stale |-> 0, fresh |-> FreshCounts,
    hooks |-> 1, sessions |-> 1]}

BatchInit == \E c \in BatchCfgs : LoaderInit(c)

BatchNext ==
  \/ \E h \in DOMAIN hooks : Mount(h)
  \/ \E i \in DOMAIN sessions, o \in Outcomes : ListRespond(i, o)
  \/ \E i \in DOMAIN sessions :
       \E id \in NextResponses(sessions[i]) :
         \E o \in CountOutcomes(id) : CountRespond(i, id, o)
  \/ \E i \in DOMAIN sessions : Enrich(i)

BatchSpec == BatchInit /\ [][BatchNext]_vars

LoaderNext ==
  \/ \E h \in DOMAIN hooks : Mount(h)
  \/ \E h \in DOMAIN hooks : Refetch(h)
  \/ \E i \in DOMAIN sessions, o \in Outcomes : ListRespond(i, o)
  \/ \E i \in DOMAIN sessions : ListCached(i)
  \/ \E i \in DOMAIN sessions :
       \E id \in NextResponses(sessions[i]) :
         \E o \in CountOutcomes(id) : CountRespond(i, id, o)
  \/ \E i \in DOMAIN sessions : Enrich(i)

\* The dashboard: BGSDashboard and SensorTable each mount a hook instance
DashboardInit ==
  LoaderInit([things |-> DashThings, stale |-> 0, fresh |-> 0,
              hooks |-> DashHooks, sessions |-> DashSessions])

DashboardSpec == DashboardInit /\ [][LoaderNext]_vars

\* One hook instance that is refetched
LoaderSpecInit ==
  LoaderInit([things |-> LoaderThings, stale |-> 0, fresh |-> 0, hooks |-> 1,
              sessions |-> MaxSessions])

LoaderSpec == LoaderSpecInit /\ [][LoaderNext]_vars

\* One hook instance that is refetched, over LiveThings sensors, when every
\* request is answered (with a response or a failure) and every continuation
\* that is ready runs: the mount effect, the continuations of the awaits of
\* fetchBasicSensors and the responses are each taken if they stay possible.
\* refetch() is under no such condition, and is invoked MaxSessions - 1 times
\* at most.
LoaderLiveInit ==
  LoaderInit([things |-> LiveThings, stale |-> 0, fresh |-> 0, hooks |-> 1,
              sessions |-> MaxSessions])

LoaderLiveSpec ==
  /\ LoaderLiveInit /\ [][LoaderNext]_vars
  /\ WF_vars(\E h \in DOMAIN hooks : Mount(h))
  /\ WF_vars(\E i \in DOMAIN sessions, o \in Outcomes : ListRespond(i, o))
  /\ WF_vars(\E i \in DOMAIN sessions : ListCached(i))
  /\ WF_vars(\E i \in DOMAIN sessions :
               \E id \in NextResponses(sessions[i]) :
                 \E o \in CountOutcomes(id) : CountRespond(i, id, o))
  /\ WF_vars(\E i \in DOMAIN sessions : Enrich(i))

-----------------------------------------------------------------------------
(* Properties of the batch count resolver and of the loader *)

\* getBatchDatastreamCounts of session s has returned
BatchReturned(s) == s.pc \in {"awaitBatch", "done"}

\* the count the service reports for a sensor
ServerCount(id) == Payload(ReqCount(id), now).count

\* the sensors whose count the initial cache holds unexpired
FreshIds == (cfg.stale + 1)..(cfg.stale + cfg.fresh)

\* C7: getBatchDatastreamCounts never fails: once every per-id request has
\* settled it returns a mapping with an entry for every id of sensorIds, in
\* which an id whose request failed maps to 0 and every other id maps to the
\* count reported for it, by the cache or by the service.
C7_BatchComplete ==
  \A i \in DOMAIN sessions :
    LET s == sessions[i]
    IN  /\ s.pc # "threw"
        /\ BatchReturned(s) =>
             /\ s.pending = {}
             /\ IdSet(s.ids) = 1..cfg.things
             /\ DOMAIN s.counts = IdSet(s.ids)
             /\ \A id \in IdSet(s.ids) :
                  s.counts[id] = Num(IF id \in s.failed THEN 0
                                     ELSE IF id \in FreshIds THEN PrefilledCount(id)
                                     ELSE ServerCount(id))

\* a batch that took counts from the cache, fetched others, some of them
\* nonzero, and had a request fail, has returned
C7_Witness ==
  \E i \in DOMAIN sessions :
    /\ BatchReturned(sessions[i])
    /\ sessions[i].failed # {}
    /\ cfg.fresh > 0 /\ Len(sessions[i].uncached) > 0
    /\ \E id \in IdSet(sessions[i].uncached) \ sessions[i].failed :
         sessions[i].counts[id] = Num(ServerCount(id)) /\ ServerCount(id) > 0

\* the size of wave k of n requests in all, and the number of waves
WaveSize(n, k) == Min(ChunkSize, n - (k - 1) * ChunkSize)
NumWaves(n) == (n + ChunkSize - 1) \div ChunkSize

\* C8: within one getBatchDatastreamCounts call over N ids that the cache does
\* not resolve, the requests are issued in exactly ceil(N/10) waves of at most
\* 10 requests each (25 ids: 10, 10, 5), and no request of a wave is issued
\* before every request of the wave before it has settled.
C8_SequentialWaves ==
  \A i \in DOMAIN sessions :
    LET s == sessions[i]
        n == Len(s.uncached)
    IN  /\ ~s.overlap
        /\ Cardinality(s.pending) <= ChunkSize
        /\ s.pending \subseteq
             {s.uncached[j] : j \in {x \in 1..n : /\ (s.wave - 1) * ChunkSize < x
                                                   /\ x <= s.wave * ChunkSize}}
        /\ Len(s.waves) <= NumWaves(n)
        /\ \A k \in 1..Len(s.waves) : s.waves[k] = WaveSize(n, k)
        /\ BatchReturned(s) => Len(s.waves) = NumWaves(n) /\ s.sent = n

\* a batch over MaxThings ids, none of them cached, has returned after waves
\* of 10, 10 and the rest
C8_Witness ==
  \E i \in DOMAIN sessions :
    /\ BatchReturned(sessions[i])
    /\ Len(sessions[i].uncached) = MaxThings
    /\ sessions[i].waves = <<ChunkSize, ChunkSize, MaxThings - 2 * ChunkSize>>

\* the count requests in flight, over all sessions
RECURSIVE InFlightUpTo(_)
InFlightUpTo(k) ==
  IF k = 0 THEN 0 ELSE Cardinality(sessions[k].pending) + InFlightUpTo(k - 1)

InFlight == InFlightUpTo(Len(sessions))

\* C9: at every moment at most 10 datastream-count requests are in flight
\* against the remote service, over all load sessions of the application.
C9_AtMostChunkInFlight == InFlight <= ChunkSize

\* C10: in every successful load session isLoadingBasic becomes false, with
\* the coarse list stored, strictly before isComplete becomes true: the step
\* that writes the enriched sensors and isComplete = true is taken by a
\* session that stored its coarse list and cleared isLoadingBasic in an
\* earlier step.
C10_BasicBeforeComplete ==
  /\ [](\A i \in DOMAIN sessions :
          sessions[i].completeSeen => sessions[i].basicSeen)
  /\ [][\A i \in DOMAIN sessions :
          sessions'[i].pc = "done" /\ sessions[i].pc # "done" =>
            /\ sessions[i].basicSeen
            /\ sessions[i].pc = "awaitBatch"
            /\ ~sessions[i].completeSeen /\ sessions'[i].completeSeen]_vars

\* a refetched load has completed with counts that are not all 0
C10_Witness ==
  \E i \in DOMAIN sessions :
    /\ i > 1
    /\ sessions[i].pc = "done"
    /\ sessions[i].basicSeen /\ sessions[i].completeSeen
    /\ hooks[sessions[i].hook].isComplete
    /\ \E k \in DOMAIN hooks[sessions[i].hook].sensors :
         hooks[sessions[i].hook].sensors[k].total_datastreams > 0

-----------------------------------------------------------------------------
(* Properties of the loader's error state and of refetch *)

\* the hook instance of session i
HookOf(i) == hooks[sessions[i].hook]

\* a step that invokes fetchBasicSensors: a mount effect or refetch()
StartsSession == Len(sessions') > Len(sessions)

\* C11: when the coarse fetch of a load session fails, the loader exposes the
\* error message and sets isLoadingBasic to false, and the state is terminal:
\* error stays set and isComplete stays false until refetch() is next invoked.
C11_ErrorTerminal ==
  [][\A i \in DOMAIN sessions :
       LET h == sessions[i].hook
       IN  /\ sessions[i].pc # "failed" /\ sessions'[i].pc = "failed" =>
                /\ hooks'[h].error = Str(sessions'[i].list.error)
                /\ sessions'[i].list.error # ""
                /\ ~hooks'[h].isLoadingBasic
                /\ ~hooks'[h].isComplete
           /\ /\ sessions[i].pc = "failed"
              /\ hooks[h].error # Null /\ ~hooks[h].isComplete
              /\ ~StartsSession
              => hooks'[h].error # Null /\ ~hooks'[h].isComplete]_vars

\* the ids of the items of a sensors list
ListIds(sensors) == [k \in DOMAIN sensors |-> sensors[k].id]

\* refetch() is invoked on hook instance h in this step
RefetchStep(h) ==
  /\ StartsSession
  /\ sessions'[Len(sessions')].hook = h
  /\ \E i \in DOMAIN sessions : sessions[i].hook = h

\* a load session of hook instance h stores its coarse list in this step
StoresList(h) ==
  \E i \in DOMAIN sessions :
    /\ sessions[i].hook = h
    /\ sessions[i].pc \in {"awaitList", "listReady"}
    /\ sessions'[i].pc \in {"awaitWave", "awaitBatch", "done"}

C14_RefetchCancelsNothing ==
  [][StartsSession =>
       \A i \in DOMAIN sessions : sessions'[i] = sessions[i]]_vars

\* the older session has completed while the newer one, started before that,
\* still awaits its coarse list: isComplete, which refetch() had set to false,
\* is true again
C14_Witness ==
  \E i \in DOMAIN sessions, j \in DOMAIN sessions :
    /\ i < j /\ sessions[i].hook = sessions[j].hook
    /\ sessions[i].pc = "done" /\ sessions[j].pc = "awaitList"
    /\ HookOf(j).isComplete /\ ~HookOf(j).isLoadingCounts

\* C12: whenever isComplete = true, every item of sensors has total_datastreams
\* equal to the count the batch count resolver resolved for its id in the same
\* session (0 for an id without a resolved count), and is otherwise the item
\* the coarse fetch of that session delivered.
C12_CompleteHasCounts ==
  \A h \in DOMAIN hooks :
    hooks[h].isComplete =>
      \E i \in DOMAIN sessions :
        /\ sessions[i].hook = h
        /\ sessions[i].pc = "done"
        /\ hooks[h].sensors = enrich(sessions[i].list.data.items, sessions[i].counts)


-----------------------------------------------------------------------------
(* Observation results: JavaScript numbers and the strings of the service   *)
(*                                                                          *)
(* A finite number is Num(n) or, when it is not an integer, a fraction in   *)
(* lowest terms; the arithmetic is exact (the readings of the model are     *)
(* small integers).  NaN and the two infinities are values of their own.    *)
(* A string is the sequence of its lexemes: a sign, a decimal digit, the    *)
(* word Infinity, or a character that is no part of a number.               *)

NaN         == [tag |-> "NaN"]
Infinity(s) == [tag |-> "Infinity", sign |-> s]
Undefined   == [tag |-> "undefined"]

IsNumber(v) == v.tag \in {"num", "NaN", "Infinity"}     \* typeof v === 'number'
IsFinite(v) == v.tag = "num"

Abs(n) == IF n < 0 THEN 0 - n ELSE n

RECURSIVE GCD(_, _)
GCD(a, b) == IF b = 0 THEN a ELSE GCD(b, a % b)

\* a / b for integers a and b # 0, as a fraction in lowest terms with a
\* positive denominator
Div(a, b) ==
  LET p == IF b < 0 THEN 0 - a ELSE a
      q == Abs(b)
  IN  IF p % q = 0 THEN Num(p \div q)
      ELSE LET g == GCD(Abs(p), q)
           IN  [tag |-> "num", n |-> p \div g, d |-> q \div g]

DigitValue ==
  [c \in {"0", "1", "2", "3", "4", "5", "6", "7", "8", "9"} |->
     CASE c = "0" -> 0 [] c = "1" -> 1 [] c = "2" -> 2 [] c = "3" -> 3
       [] c = "4" -> 4 [] c = "5" -> 5 [] c = "6" -> 6 [] c = "7" -> 7
       [] c = "8" -> 8 [] c = "9" -> 9]

IsDigit(c) == c \in DOMAIN DigitValue

\* the length of the longest prefix of s made of decimal digits
RECURSIVE DigitsPrefix(_)
DigitsPrefix(s) ==
  IF s # <<>> /\ IsDigit(Head(s)) THEN 1 + DigitsPrefix(Tail(s)) ELSE 0

\* the value of the decimal digits s
RECURSIVE Decimal(_)
Decimal(s) ==
  IF s = <<>> THEN 0
  ELSE 10 * Decimal(SubSeq(s, 1, Len(s) - 1)) + DigitValue[s[Len(s)]]

\* parseFloat: the argument is converted to a string (null reads "null");
\* an optional sign, then Infinity or the longest run of digits; NaN when
\* there is no such prefix.  What follows the number is ignored.
parseFloat(v) ==
  IF v.tag # "str" THEN NaN
  ELSE LET signed == v.s # <<>> /\ Head(v.s) \in {"-", "+"}
           sign   == IF v.s # <<>> /\ Head(v.s) = "-" THEN 0 - 1 ELSE 1
           body   == IF signed THEN Tail(v.s) ELSE v.s
           k      == DigitsPrefix(body)
       IN  IF body # <<>> /\ Head(body) = "Infinity" THEN Infinity(sign)
           ELSE IF k = 0 THEN NaN
           ELSE Num(sign * Decimal(SubSeq(body, 1, k)))

\* x || 0 for a number x: NaN and 0 are falsy
OrZero(x) == IF x = NaN \/ x = Num(0) THEN Num(0) ELSE x

\* result: typeof obs.result === 'number' ? obs.result : parseFloat(obs.result) || 0
ObservationResult(raw) ==
  IF IsNumber(raw) THEN raw ELSE OrZero(parseFloat(raw))

\* (mutant) a rejected value is replaced by zero
validateSensorValueOrZero(value) ==
  IF IsFinite(value) THEN value
  ELSE IF value.tag = "str" THEN OrZero(parseFloat(value))
  ELSE Num(0)

\* validateSensorValue of @/lib/bgs-api: a finite number is accepted as it is,
\* a string is parsed once and accepted if the parse is finite; everything
\* else is rejected with null
validateSensorValue(value) ==
  IF IsFinite(value) THEN value
  ELSE IF value.tag = "str"
       THEN (IF IsFinite(parseFloat(value)) THEN parseFloat(value) ELSE Null)
  ELSE Null

\* processObservationValues of @/lib/bgs-api: the validated results of the
\* observations, in the order of the list, the rejected ones left out
processObservationValues(obs) ==
  LET valid == SelectSeq(obs, LAMBDA o : validateSensorValue(o.result) # Null)
  IN  [i \in 1..Len(valid) |-> validateSensorValue(valid[i].result)]


-----------------------------------------------------------------------------
(* getDatastreamObservations: the observations of a response                *)
(* (useSensorData.ts 884-914)                                               *)

\* the rows of a datastream (kept in ascending phenomenonTime) as the service
\* returns them: $orderby=phenomenonTime asc when a date is given, desc when
\* none is
Reverse(s) == [i \in 1..Len(s) |-> s[Len(s) + 1 - i]]

ResponseValue(rows, dated) == IF dated THEN rows ELSE Reverse(rows)

\* response.value.map((obs, index) => ({ observation_id, phenomenon_time, result }))
Observations(value) ==
  [index \in 1..Len(value) |->
     [observation_id  |-> IF value[index].iot_id # 0 THEN value[index].iot_id
                          ELSE index,
      phenomenon_time |-> value[index].phenomenonTime,
      result          |-> ObservationResult(value[index].result)]]

-----------------------------------------------------------------------------
(* DatastreamChart.chartData (part_002 478-559; the other version of the    *)
(* component, part_002 78-159, differs in the fields a point carries for    *)
(* display and not in what follows).  A phenomenon_time is the ISO string   *)
(* of an instant; the model writes it as the instant.                       *)

RECURSIVE AllObservations(_, _)
\* datastreams.forEach(ds => observations[ds.datastream_id].forEach(push))
AllObservations(datastreams, observations) ==
  IF datastreams = <<>> THEN <<>>
  ELSE [i \in 1..Len(observations[Head(datastreams)]) |->
          [obs          |-> observations[Head(datastreams)][i],
           datastreamId |-> Head(datastreams),
           timestamp    |-> observations[Head(datastreams)][i].phenomenon_time]]
       \o AllObservations(Tail(datastreams), observations)

\* the value a point gets for a datastream: each valid observation of the
\* datastream at the timestamp is assigned in turn, the last one stays
PointValue(all, timestamp, d) ==
  LET valid == SelectSeq(all, LAMBDA a :
                 /\ a.timestamp = timestamp /\ a.datastreamId = d
                 /\ validateSensorValue(a.obs.result) # Null)
  IN  IF valid = <<>> THEN Undefined
      ELSE validateSensorValue(valid[Len(valid)].obs.result)

\* (mutant) a point is created for every observation, not for every timestamp
FirstOfTimestampAny(all, i) == TRUE

\* !allDataPoints.has(timestamp): the observation is the first of its timestamp
FirstOfTimestamp(all, i) ==
  \A j \in 1..(i - 1) : all[j].timestamp # all[i].timestamp

\* Array.from(allDataPoints.values()): the points in the order of insertion
DataPoints(datastreams, observations) ==
  LET all   == AllObservations(datastreams, observations)
      first == SelectSeq([i \in 1..Len(all) |-> i],
                         LAMBDA i : FirstOfTimestamp(all, i))
  IN  [k \in 1..Len(first) |->
         [timestamp |-> all[first[k]].timestamp,
          value     |-> [d \in IdSet(datastreams) |->
                           PointValue(all, all[first[k]].timestamp, d)],
          original  |-> [d \in IdSet(datastreams) |-> Undefined]]]

\* .sort((a, b) => a.date - b.date)
ByDate(a, b) == a.timestamp < b.timestamp

RawData(datastreams, observations) ==
  SortSeq(DataPoints(datastreams, observations), ByDate)

RECURSIVE MinOf(_)
MinOf(values) ==
  IF Len(values) = 1 THEN values[1] ELSE Min(values[1], MinOf(Tail(values)))

RECURSIVE MaxOf(_)
MaxOf(values) ==
  IF Len(values) = 1 THEN values[1] ELSE Max(values[1], MaxOf(Tail(values)))

\* rawData.map(point => point[key]).filter(v => v != null), as integers
SeriesValues(rawData, d) ==
  LET present == SelectSeq(rawData, LAMBDA p : p.value[d] # Undefined)
  IN  [i \in 1..Len(present) |-> present[i].value[d].n]

\* (mutant) the series is scaled by its maximum alone
SeriesRangeFromZero(rawData, d) ==
  IF SeriesValues(rawData, d) = <<>> THEN Undefined
  ELSE [min |-> 0, max |-> MaxOf(SeriesValues(rawData, d))]

\* ranges.get(key): { min, max } of the datastream's values, if it has any
SeriesRange(rawData, d) ==
  IF SeriesValues(rawData, d) = <<>> THEN Undefined
  ELSE [min |-> MinOf(SeriesValues(rawData, d)),
        max |-> MaxOf(SeriesValues(rawData, d))]

\* normalized[key] = range.max === range.min ? 0 : (v - min) / (max - min)
NormalizedPoint(rawData, point) ==
  [point EXCEPT
     !.original = [d \in DOMAIN point.value |->
                     IF SeriesRange(rawData, d) # Undefined
                        /\ point.value[d] # Undefined
                     THEN point.value[d] ELSE Undefined],
     !.value    = [d \in DOMAIN point.value |->
                     IF SeriesRange(rawData, d) # Undefined
                        /\ point.value[d] # Undefined
                     THEN LET range == SeriesRange(rawData, d)
                          IN  IF range.max = range.min THEN Num(0)
                              ELSE Div(point.value[d].n - range.min,
                                       range.max - range.min)
                     ELSE point.value[d]]]

chartData(datastreams, observations, isNormalized) ==
  IF datastreams = <<>> THEN <<>>
  ELSE IF AllObservations(datastreams, observations) = <<>> THEN <<>>
  ELSE LET rawData == RawData(datastreams, observations)
       IN  IF isNormalized /\ rawData # <<>>
           THEN [i \in 1..Len(rawData) |-> NormalizedPoint(rawData, rawData[i])]
           ELSE rawData


-----------------------------------------------------------------------------
(* DatastreamSummary.streamStats (DatastreamSummary.tsx 28-75)              *)

TrendWindow  == 3      \* values.slice(0, 3), values.slice(-3)
TrendUpPct   == 102    \* recentAvg > olderAvg * 1.02
TrendDownPct == 98     \* recentAvg < olderAvg * 0.98

RECURSIVE Sum(_)
Sum(values) == IF values = <<>> THEN 0 ELSE values[1] + Sum(Tail(values))

NoStats ==
  [min |-> Num(0), max |-> Num(0), avg |-> Num(0), latest |-> Num(0),
   count |-> 0, trend |-> "neutral"]

\* recentAvg > olderAvg * 1.02, recentAvg < olderAvg * 0.98: both averages are
\* sums of TrendWindow values, so that the sums are compared
Trend(values) ==
  IF Len(values) >= TrendWindow
  THEN LET recent == Sum(SubSeq(values, 1, TrendWindow))
           older  == Sum(SubSeq(values, Len(values) - TrendWindow + 1, Len(values)))
       IN  IF recent * 100 > older * TrendUpPct THEN "up"
           ELSE IF recent * 100 < older * TrendDownPct THEN "down"
           ELSE "neutral"
  ELSE "neutral"

\* the statistics of one datastream
StatsOf(datastreamObs) ==
  LET processed == processObservationValues(datastreamObs)
      values    == [i \in 1..Len(processed) |-> processed[i].n]
  IN  IF datastreamObs = <<>> THEN NoStats
      ELSE IF values = <<>> THEN NoStats
      ELSE [min    |-> Num(MinOf(values)),
            max    |-> Num(MaxOf(values)),
            avg    |-> Div(Sum(values), Len(values)),
            latest |-> Num(values[1]),
            count  |-> Len(values),
            trend  |-> Trend(values)]

streamStats(datastreams, observations) ==
  [d \in IdSet(datastreams) |-> StatsOf(observations[d])]


-----------------------------------------------------------------------------
(* The sensor page: fetchChartData, then the chart and the summary rendered *)
(* from the same observations (src/app/sensor/[sensorId]/page.tsx 151-190,  *)
(* 406-425)                                                                 *)

PipeTimes    == 3     \* instants at which the datastreams have rows
PipeReadings == 3     \* rows of the service, over all the datastreams
TrendReadings == 6    \* rows of the single datastream of the trend model

PipeDatastreams == <<1, 2>>

NoRow == [tag |-> "none"]

\* what the service sends as the result of a row: a number, a number as a
\* string, a string that is no number, a non-finite number as a string
PipeResults  == {Num(2), Str(<<"-", "8">>), Str(<<"x">>), Str(<<"Infinity">>)}
TrendResults == {Num(0 - 50), Num(0), Num(50), Num(51), Str(<<"Infinity">>)}

\* the rows of datastream d in ascending phenomenonTime, one row per instant
RowsOf(f, d) ==
  LET times == SelectSeq([t \in 1..PipeTimes |-> t], LAMBDA t : f[<<d, t>>] # NoRow)
  IN  [i \in 1..Len(times) |->
         [iot_id |-> 10 * d + times[i], phenomenonTime |-> times[i],
          result |-> f[<<d, times[i]>>]]]

NewPipe(datastreams, rows, dated) ==
  [pc |-> "remote", datastreams |-> datastreams, rows |-> rows, dated |-> dated,
   observations |-> [d \in IdSet(datastreams) |-> <<>>],
   isNormalized |-> TRUE, chart |-> <<>>,
   stats |-> [d \in IdSet(datastreams) |-> NoStats]]

PipeQuiet ==
  /\ now = 0
  /\ apiCache = <<>>
  /\ lastOp = NoOp
  /\ netCount = 0
  /\ calls = {}
  /\ lastCall = NoCall
  /\ hist = <<>>
  /\ sig = NoSig
  /\ cfg = NoCfg
  /\ hooks = <<>>
  /\ sessions = <<>>

PipeInit ==
  /\ PipeQuiet
  /\ \E f \in [IdSet(PipeDatastreams) \X (1..PipeTimes) -> PipeResults \cup {NoRow}],
        dated \in BOOLEAN :
       /\ Cardinality({k \in DOMAIN f : f[k] # NoRow}) <= PipeReadings
       /\ pipe = NewPipe(PipeDatastreams,
                         [d \in IdSet(PipeDatastreams) |-> RowsOf(f, d)], dated)

TrendInit ==
  /\ PipeQuiet
  /\ \E n \in 0..TrendReadings, dated \in BOOLEAN :
       \E results \in [1..n -> TrendResults] :
         pipe = NewPipe(<<1>>,
                        [d \in {1} |->
                           [t \in 1..n |-> [iot_id |-> 10 + t, phenomenonTime |-> t,
                                            result |-> results[t]]]],
                        dated)

\* every getDatastreamObservations of fetchChartData has returned with success
fetchChartData ==
  /\ pipe.pc = "remote"
  /\ pipe' = [pipe EXCEPT
       !.pc = "fetched",
       !.observations = [d \in IdSet(pipe.datastreams) |->
                           Observations(ResponseValue(pipe.rows[d], pipe.dated))]]
  /\ UNCHANGED <<now, apiCache, lastOp, netCount, fetchState, sig, loaderState>>

\* DatastreamSummary and DatastreamChart render the observations
Render ==
  /\ pipe.pc = "fetched"
  /\ pipe' = [pipe EXCEPT
       !.pc = "rendered",
       !.chart = chartData(pipe.datastreams, pipe.observations, pipe.isNormalized),
       !.stats = streamStats(pipe.datastreams, pipe.observations)]
  /\ UNCHANGED <<now, apiCache, lastOp, netCount, fetchState, sig, loaderState>>

\* the Normalised / Raw toggle of the chart: setIsNormalized, and the chart
\* is computed again
ToggleNormalized ==
  /\ pipe.pc = "rendered"
  /\ pipe' = [pipe EXCEPT
       !.isNormalized = ~pipe.isNormalized,
       !.chart = chartData(pipe.datastreams, pipe.observations, ~pipe.isNormalized)]
  /\ UNCHANGED <<now, apiCache, lastOp, netCount, fetchState, sig, loaderState>>

PipeNext == fetchChartData \/ Render \/ ToggleNormalized

PipeSpec == PipeInit /\ [][PipeNext]_vars

TrendSpec == TrendInit /\ [][PipeNext]_vars


-----------------------------------------------------------------------------
(* Properties of the chart data pipeline *)

Rendered == pipe.pc = "rendered"

PipeIds == IdSet(pipe.datastreams)

\* the rows of datastream d that validation accepts, and their readings
ValidRows(d) ==
  SelectSeq(pipe.rows[d], LAMBDA r : validateSensorValue(r.result) # Null)

ValidReadings(d) ==
  [i \in 1..Len(ValidRows(d)) |-> validateSensorValue(ValidRows(d)[i].result).n]

\* C15: a reading that validation rejects is dropped and never replaced by
\* zero: a row of the service whose result is a non-finite number or a string
\* that does not parse to a finite number gives no value to the point of its
\* timestamp in the merged series, and count, min, max, avg and latest of the
\* summary are those of the other rows alone.
C15_RejectedDropped ==
  Rendered =>
    \A d \in PipeIds :
      /\ \A i \in DOMAIN pipe.rows[d] :
           validateSensorValue(pipe.rows[d][i].result) = Null =>
             \A k \in DOMAIN pipe.chart :
               pipe.chart[k].timestamp = pipe.rows[d][i].phenomenonTime =>
                 /\ pipe.chart[k].value[d] = Undefined
                 /\ pipe.chart[k].original[d] = Undefined
      /\ pipe.stats[d].count = Len(ValidRows(d))
      /\ IF ValidRows(d) = <<>> THEN pipe.stats[d] = NoStats
         ELSE /\ pipe.stats[d].min = Num(MinOf(ValidReadings(d)))
              /\ pipe.stats[d].max = Num(MaxOf(ValidReadings(d)))
              /\ pipe.stats[d].avg = Div(Sum(ValidReadings(d)), Len(ValidRows(d)))
              /\ \E i \in DOMAIN ValidReadings(d) :
                   pipe.stats[d].latest = Num(ValidReadings(d)[i])


-----------------------------------------------------------------------------
(* Validation of a candidate reading, applied once and again *)

ParseLen == 3     \* lexemes of a candidate string

Lexemes == {"-", "3", "x", "Infinity"}

Strings == UNION {[1..n -> Lexemes] : n \in 0..ParseLen}

Candidates ==
  {Num(0 - 8), Num(0), Num(2), Div(26, 5), NaN, Infinity(1), Infinity(0 - 1),
   Null, Undefined}
    \cup {Str(s) : s \in Strings}

ValidateInit ==
  /\ PipeQuiet
  /\ \E value \in Candidates : pipe = [pc |-> "candidate", value |-> value]

\* validateSensorValue(value)
Validate ==
  /\ pipe.pc = "candidate"
  /\ pipe' = [pc |-> "validated", value |-> pipe.value,
              once |-> validateSensorValue(pipe.value)]
  /\ UNCHANGED <<now, apiCache, lastOp, netCount, fetchState, sig, loaderState>>

\* validateSensorValue of the value validateSensorValue returned, as the
\* normalization of the chart does with the values of the points
Revalidate ==
  /\ pipe.pc = "validated"
  /\ pipe' = [pc |-> "revalidated", value |-> pipe.value, once |-> pipe.once,
              twice |-> validateSensorValue(pipe.once)]
  /\ UNCHANGED <<now, apiCache, lastOp, netCount, fetchState, sig, loaderState>>

ValidateNext == Validate \/ Revalidate

ValidateSpec == ValidateInit /\ [][ValidateNext]_vars

\* the decimal numeral of an integer, as lexemes
RECURSIVE Numeral(_)
Numeral(n) ==
  IF n < 0 THEN <<"-">> \o Numeral(0 - n)
  ELSE IF n < 10 THEN <<CHOOSE c \in DOMAIN DigitValue : DigitValue[c] = n>>
  ELSE Numeral(n \div 10) \o Numeral(n % 10)

\* the string starts with a numeral: digits, after a sign or not
StartsWithNumeral(s) ==
  \/ s # <<>> /\ IsDigit(s[1])
  \/ Len(s) >= 2 /\ s[1] = "-" /\ IsDigit(s[2])

\* C16: validation is total and idempotent: it returns a finite number or
\* null; a finite number is returned unchanged, and validating the result
\* again returns the same; a string that starts with a numeral yields the
\* number the numeral denotes; NaN, +Infinity, -Infinity and every string
\* that does not parse to a finite number yield null.
C16_ValidationIdempotent ==
  pipe.pc \in {"validated", "revalidated"} =>
    /\ IsFinite(pipe.once) \/ pipe.once = Null
    /\ IsFinite(pipe.value) => pipe.once = pipe.value
    /\ pipe.value \in {NaN, Infinity(1), Infinity(0 - 1)} => pipe.once = Null
    /\ pipe.value.tag = "str" =>
         IF StartsWithNumeral(pipe.value.s)
         THEN /\ IsFinite(pipe.once)
              /\ \E k \in 1..Len(pipe.value.s) :
                   Numeral(pipe.once.n) = SubSeq(pipe.value.s, 1, k)
         ELSE pipe.once = Null
    /\ pipe.pc = "revalidated" => pipe.twice = pipe.once

\* a numeric string has been validated to its number, and validated again
C16_Witness ==
  /\ pipe.pc = "revalidated"
  /\ pipe.value = Str(<<"-", "3", "3">>)
  /\ pipe.once = Num(0 - 33) /\ pipe.twice = Num(0 - 33)


\* the indexes of the observations of datastream d, as handed to the chart
\* and to the summary, that validation accepts
ValidObs(d) ==
  {i \in DOMAIN pipe.observations[d] :
     validateSensorValue(pipe.observations[d][i].result) # Null}

\* C17: for every datastream with at least one valid value, the latest of the
\* summary is the valid value with the most recent phenomenon time, whether
\* the observations arrive in descending order (latest-N query) or in
\* ascending order (date-range query).
C17_LatestIsMostRecent ==
  Rendered =>
    \A d \in PipeIds :
      ValidObs(d) # {} =>
        \E i \in ValidObs(d) :
          /\ \A j \in ValidObs(d) :
               pipe.observations[d][j].phenomenon_time
                 <= pipe.observations[d][i].phenomenon_time
          /\ pipe.stats[d].latest = pipe.observations[d][i].result


\* the sums of the TrendWindow oldest and of the TrendWindow most recent valid
\* readings of datastream d (the rows are in ascending phenomenonTime)
OldestSum(d) == Sum(SubSeq(ValidReadings(d), 1, TrendWindow))

RecentSum(d) ==
  Sum(SubSeq(ValidReadings(d), Len(ValidReadings(d)) - TrendWindow + 1,
             Len(ValidReadings(d))))

\* C18: for every datastream with at least 3 valid values, whatever the signs
\* of the two means, the trend is up iff the mean of the 3 most recent valid
\* values is above the mean of the 3 oldest by more than 2% of it, down iff it
\* is below by more than 2%, and neutral otherwise: equal means and a
\* difference of exactly 2% are neutral.
C18_TrendByTwoPercent ==
  Rendered =>
    \A d \in PipeIds :
      Len(ValidReadings(d)) >= TrendWindow =>
        pipe.stats[d].trend =
          IF 100 * (RecentSum(d) - OldestSum(d)) > 2 * Abs(OldestSum(d)) THEN "up"
          ELSE IF 100 * (OldestSum(d) - RecentSum(d)) > 2 * Abs(OldestSum(d))
               THEN "down"
          ELSE "neutral"


\* numerator and denominator of a finite number
Numer(x) == x.n

Denom(x) == IF "d" \in DOMAIN x THEN x.d ELSE 1

\* the valid values of datastream d among the observations handed to the chart
ValidValues(d) == {pipe.observations[d][i].result.n : i \in ValidObs(d)}

LeastValid(d) == CHOOSE v \in ValidValues(d) : \A w \in ValidValues(d) : v <= w

GreatestValid(d) == CHOOSE v \in ValidValues(d) : \A w \in ValidValues(d) : v >= w

\* C19: with normalization enabled each datastream is rescaled on its own, by
\* the minimum and the maximum of its own valid values: a point that has a
\* valid reading v of the datastream carries v' = (v - min) / (max - min),
\* which lies between 0 and 1, is 0 for the minimum and 1 for the maximum,
\* and is 0 for every value of a constant series; the point keeps v itself
\* next to v'.
C19_NormalizedToUnitRange ==
  (Rendered /\ pipe.isNormalized) =>
    \A d \in PipeIds : \A i \in ValidObs(d) :
      \E k \in DOMAIN pipe.chart :
        LET v     == pipe.observations[d][i].result.n
            point == pipe.chart[k]
            min   == LeastValid(d)
            max   == GreatestValid(d)
        IN  /\ point.timestamp = pipe.observations[d][i].phenomenon_time
            /\ point.original[d] = Num(v)
            /\ IsFinite(point.value[d])
            /\ 0 <= Numer(point.value[d])
            /\ Numer(point.value[d]) <= Denom(point.value[d])
            /\ IF max = min THEN point.value[d] = Num(0)
               ELSE /\ Numer(point.value[d]) * (max - min)
                         = Denom(point.value[d]) * (v - min)
                    /\ v = min => point.value[d] = Num(0)
                    /\ v = max => point.value[d] = Num(1)

\* two datastreams with different ranges are normalized in the same chart:
\* the minimum of the first is at 0 and its maximum at 1, the only value of
\* the second is at 0, and each point keeps the reading
C19_Witness ==
  /\ Rendered /\ pipe.isNormalized
  /\ ValidValues(1) = {0 - 8, 2}
  /\ ValidValues(2) = {2}
  /\ \E k \in DOMAIN pipe.chart :
       pipe.chart[k].value[1] = Num(0) /\ pipe.chart[k].original[1] = Num(0 - 8)
  /\ \E k \in DOMAIN pipe.chart :
       pipe.chart[k].value[1] = Num(1) /\ pipe.chart[k].original[1] = Num(2)
  /\ \E k \in DOMAIN pipe.chart :
       pipe.chart[k].value[2] = Num(0) /\ pipe.chart[k].original[2] = Num(2)


\* the timestamps of all the observations handed to the chart
Timestamps ==
  UNION {{pipe.observations[d][i].phenomenon_time :
            i \in 1..Len(pipe.observations[d])} : d \in PipeIds}

\* the reading a point of the chart carries for datastream d
PointReading(point, d) ==
  IF pipe.isNormalized THEN point.original[d] ELSE point.value[d]

\* C20: the merge of the datastreams' observation lists has exactly one point
\* per distinct timestamp, in ascending order of time; a point carries a value
\* for datastream d iff d has a valid reading at exactly that timestamp, and
\* the value is a reading of d at that timestamp.
C20_MergeByTimestamp ==
  Rendered =>
    /\ {pipe.chart[k].timestamp : k \in DOMAIN pipe.chart} = Timestamps
    /\ Len(pipe.chart) = Cardinality(Timestamps)
    /\ \A k \in 1..(Len(pipe.chart) - 1) :
         pipe.chart[k].timestamp < pipe.chart[k + 1].timestamp
    /\ \A k \in DOMAIN pipe.chart : \A d \in PipeIds :
         LET at == {i \in ValidObs(d) :
                      pipe.observations[d][i].phenomenon_time
                        = pipe.chart[k].timestamp}
         IN  IF at = {} THEN PointReading(pipe.chart[k], d) = Undefined
             ELSE \E i \in at :
                    PointReading(pipe.chart[k], d) = pipe.observations[d][i].result

\* two datastreams, received in descending order, share a timestamp at which
\* the first has a valid reading and the second a rejected one: the point
\* carries the first reading and nothing for the second
C20_Witness ==
  /\ Rendered /\ ~pipe.dated
  /\ Len(pipe.chart) >= 2
  /\ Len(pipe.observations[1]) >= 2
  /\ \E k \in DOMAIN pipe.chart :
       /\ \E i \in DOMAIN pipe.observations[2] :
            /\ pipe.observations[2][i].phenomenon_time = pipe.chart[k].timestamp
            /\ pipe.observations[2][i].result = Infinity(1)
       /\ PointReading(pipe.chart[k], 1) = Num(2)
       /\ PointReading(pipe.chart[k], 2) = Undefined


-----------------------------------------------------------------------------
(* Further properties of the fetchers and of the cache *)

\* C21: a successful getDatastreamObservations result has isLimited = true
\* exactly when the total the server reports is greater than the number of
\* observations returned, and false otherwise, also when the server reports
\* no total; a later cache hit for the same request returns the isLimited
\* that was stored.
C21_IsLimited ==
  (lastCall.pc = "done" /\ lastCall.req.fn = "getDatastreamObservations") =>
    /\ lastCall.outcome = "ok" =>
         /\ lastCall.result.success
         /\ lastCall.result.data.isLimited
              = (Payload(lastCall.req, now).count
                   > Len(Payload(lastCall.req, now).items))
    /\ lastCall.hit =>
         /\ lastCall.result.success
         /\ hist[lastCall.req].known
         /\ lastCall.result.data.isLimited = hist[lastCall.req].data.isLimited

\* a limited result has been stored and a later call is served from the cache
\* with isLimited = true
C21_Witness ==
  /\ lastCall.pc = "done" /\ lastCall.req.fn = "getDatastreamObservations"
  /\ lastCall.hit /\ lastCall.result.data.isLimited
  /\ netCount = 1

\* the storedAt of the entry of key k
StoredAt(c, k) == MapGet(c, k).timestamp

\* C22: setCachedData evicts only when the cache holds more than 100 entries
\* before the insert, and then removes exactly 20 entries, each stored no
\* later than every entry it keeps; getCachedData removes nothing but the key
\* it looked up.
C22_EvictsTwentyOldest ==
  [][/\ lastOp'.op = "get" =>
          \/ apiCache' = apiCache
          \/ apiCache' = MapDelete(apiCache, lastOp'.key)
     /\ (lastOp'.op = "set" /\ Len(apiCache) > MaxCacheSize) =>
          \A after \in {Keys(apiCache')} :
          \* the entries that left the Map, the entry of the key written, and
          \* the entries that stayed; the key written may be one of the 20
          \* and be inserted again
          \A dropped \in {SelectSeq(apiCache, LAMBDA e : ~(e.key \in after))},
             written \in {SelectSeq(apiCache, LAMBDA e : e.key = lastOp'.key)},
             kept \in {SelectSeq(apiCache', LAMBDA e : e.key # lastOp'.key)} :
          \A again \in {Len(dropped) < EvictCount} :
          \A goneAt \in {{dropped[i].timestamp : i \in 1..Len(dropped)} \cup
                          {written[i].timestamp :
                             i \in 1..(IF again THEN Len(written) ELSE 0)}},
             keptAt \in {{kept[i].timestamp : i \in 1..Len(kept)} \cup
                          {written[i].timestamp :
                             i \in 1..(IF again THEN 0 ELSE Len(written))}} :
            /\ Len(dropped) + (IF again THEN Len(written) ELSE 0) = EvictCount
            /\ \A g \in goneAt : \A k \in keptAt : g <= k
            /\ lastOp'.key \in after
            /\ kept = SelectSeq(apiCache,
                                LAMBDA e : e.key \in after /\ e.key # lastOp'.key)
     \* no entry leaves: every key stays where it is in the Map, and a new
     \* key is added after them
     /\ (lastOp'.op = "set" /\ Len(apiCache) <= MaxCacheSize) =>
          /\ \A i \in 1..Len(apiCache) : apiCache'[i].key = apiCache[i].key
          /\ IF Len(apiCache') = Len(apiCache)
             THEN \E i \in 1..Len(apiCache) : apiCache[i].key = lastOp'.key
             ELSE /\ Len(apiCache') = Len(apiCache) + 1
                  /\ apiCache'[Len(apiCache')].key = lastOp'.key]_vars

\* a write to the oldest key of a cache of 101 entries has evicted 20 entries,
\* that key among them, and inserted it again
C22_Witness ==
  /\ lastOp.op = "set" /\ lastOp.evicted /\ lastOp.key = countKey(1)
  /\ Len(apiCache) = MaxCacheSize + 1 - EvictCount + 1
  /\ HasKey(apiCache, countKey(1)) /\ ~HasKey(apiCache, countKey(2))
  /\ StoredAt(apiCache, countKey(1)) = now

\* C29: under any sequence of setCachedData and getCachedData calls the cache
\* holds at most 101 entries, and right after a setCachedData call that
\* evicted it holds at most 82.
C29_SizeBounds ==
  /\ [](Len(apiCache) <= MaxCacheSize + 1)
  /\ [][(lastOp'.op = "set" /\ Len(apiCache) > MaxCacheSize) =>
          Len(apiCache') <= 82]_vars

\* a write of a new key to a cache of 101 entries has left 82
C29_Witness ==
  /\ lastOp.op = "set" /\ lastOp.evicted /\ ~lastOp.found
  /\ Len(apiCache) = 82

\* C23: in every reachable state, under any interleaving of load sessions
\* and refetch() calls, at most one of isLoadingBasic, isLoadingCounts and
\* isComplete is true, and isComplete is never true while error is non-null.
C23_PhasesExclusive ==
  \A h \in DOMAIN hooks :
    /\ ~(hooks[h].isLoadingBasic /\ hooks[h].isLoadingCounts)
    /\ ~(hooks[h].isLoadingBasic /\ hooks[h].isComplete)
    /\ ~(hooks[h].isLoadingCounts /\ hooks[h].isComplete)
    /\ hooks[h].isComplete => hooks[h].error = Null

\* the loader of hook instance h is at rest: nothing is loading, and the
\* load is complete or has an error
AtRest(h) ==
  /\ ~hooks[h].isLoadingBasic /\ ~hooks[h].isLoadingCounts
  /\ hooks[h].isComplete \/ hooks[h].error # Null

\* C24: when every request is eventually answered and refetch() is invoked
\* finitely often, the loader comes to rest (isLoadingBasic and
\* isLoadingCounts false, and isComplete true or error non-null); and as long
\* as the request a lone session awaits is unanswered the loader stays
\* loading, whatever time passes.
C24_LoadTerminates ==
  /\ <>[](\A h \in DOMAIN hooks : AtRest(h))
  /\ [](\A i \in DOMAIN sessions :
          Len(sessions) = 1 =>
            /\ sessions[i].pc = "awaitList" => hooks[sessions[i].hook].isLoadingBasic
            /\ sessions[i].pc = "awaitWave" => hooks[sessions[i].hook].isLoadingCounts)

\* a refetched loader at rest with the error of a failed list request, every
\* session over
C24_Witness ==
  /\ Len(sessions) = MaxSessions
  /\ \A i \in DOMAIN sessions : sessions[i].pc \in {"done", "failed"}
  /\ \E i \in DOMAIN sessions : sessions[i].pc = "failed"
  /\ AtRest(1) /\ hooks[1].error # Null

\* the ids of session s whose count request has been answered with a count
ResolvedIds(s) ==
  {s.uncached[x] : x \in {y \in 1..Len(s.uncached) : y <= s.wave * ChunkSize}}
    \ (s.pending \cup s.failed)

\* C25: getBatchDatastreamCounts issues no request for an id whose count is
\* cached and unexpired, a cached 0 included, and answers it from the cache;
\* when every id is cached it returns the full mapping without any request;
\* each count a request resolves is stored in the cache.
C25_BatchUsesCache ==
  \A i \in DOMAIN sessions :
    LET s == sessions[i]
    IN  /\ IdSet(s.uncached) \cap FreshIds = {}
        /\ s.pending \cap FreshIds = {}
        /\ s.sent <= Len(s.uncached)
        /\ netCount = 1 + s.sent
        /\ \A id \in FreshIds \cap IdSet(s.ids) :
             s.counts[id] = Num(PrefilledCount(id))
        /\ (s.ids # <<>> /\ IdSet(s.ids) \subseteq FreshIds) =>
             /\ BatchReturned(s)
             /\ s.sent = 0
             /\ DOMAIN s.counts = IdSet(s.ids)
        /\ \A id \in ResolvedIds(s) :
             /\ HasKey(apiCache, countKey(id))
             /\ MapGet(apiCache, countKey(id)) =
                  [key |-> countKey(id), data |-> Num(ServerCount(id)),
                   timestamp |-> now, ttl |-> CountTtl]

\* a batch has returned that took a count of 0 and two others from the cache
\* and fetched the rest, one of them an expired entry's
C25_Witness ==
  \E i \in DOMAIN sessions :
    /\ BatchReturned(sessions[i])
    /\ cfg.stale > 0 /\ cfg.fresh = FreshCounts
    /\ \E id \in FreshIds : sessions[i].counts[id] = Num(0)
    /\ sessions[i].sent = MaxThings - FreshCounts
    /\ 1 \in ResolvedIds(sessions[i])

\* C26: a datastream with fewer than 3 valid values has trend neutral, and so
\* has one with exactly 3 valid values, whatever their signs.
C26_ShortSeriesNeutral ==
  Rendered =>
    \A d \in PipeIds :
      Len(ValidReadings(d)) <= TrendWindow => pipe.stats[d].trend = "neutral"

\* the coarse list the service returns, as listSensors stores it
StoredList == Decode(ReqSensors, Payload(ReqSensors, now))

\* C27: the enrichment pass of the loader changes only the loader's own
\* sensors: the cached coarse list stays as it was stored, every item with
\* total_datastreams = 0, and a later listSensors cache hit returns exactly
\* the value stored.
C27_CachedListUnchanged ==
  /\ \A k \in DOMAIN apiCache :
       apiCache[k].key = cacheKey(ReqSensors) =>
         /\ apiCache[k].data = StoredList
         /\ \A x \in DOMAIN apiCache[k].data.items :
              apiCache[k].data.items[x].total_datastreams = 0
  /\ \A i \in DOMAIN sessions :
       sessions[i].pc = "listReady" =>
         sessions[i].list = OkResult(ReqSensors, StoredList)

\* a load has completed with a count that is not 0, and a refetch is being
\* served the list from the cache
C27_Witness ==
  /\ Len(sessions) = 2
  /\ sessions[1].pc = "done" /\ sessions[2].pc = "listReady"
  /\ \E x \in DOMAIN hooks[1].sensors : hooks[1].sensors[x].total_datastreams > 0
  /\ \A x \in DOMAIN sessions[2].list.data.items :
       sessions[2].list.data.items[x].total_datastreams = 0

\* C28 (as claimed): a fetcher call that ends in failure writes no cache
\* entry (neither the failure result, nor the empty default, nor the count 0),
\* so that the next call with the same parameters issues a request again.
C28_FailureNotCached ==
  /\ \A r \in FetchRequests : \A k \in {cacheKey(r)} :
       \A i \in DOMAIN apiCache :
         apiCache[i].key = k =>
           /\ hist[r].known
           /\ apiCache[i].data = hist[r].data
           /\ apiCache[i].timestamp = hist[r].at
  /\ \A c \in calls \cup {lastCall} :
       (c.pc # "none" /\ c.priorFailed) => ~c.hit /\ c.reqs = NumRequests(c.req)

\* C28 (amended): a fetcher call that ends in failure writes no cache entry:
\* every entry of a fetcher's key is the data a successful completion stored,
\* when it stored them; the next call with the same parameters issues a
\* request again, unless a call that overlapped the failed one has stored its
\* result in the meantime, which is then what the next call returns.
C28_FailureNotCachedUnlessStored ==
  /\ \A r \in FetchRequests : \A k \in {cacheKey(r)} :
       \A i \in DOMAIN apiCache :
         apiCache[i].key = k =>
           /\ hist[r].known
           /\ apiCache[i].data = hist[r].data
           /\ apiCache[i].timestamp = hist[r].at
  /\ \A c \in calls \cup {lastCall} :
       (c.pc # "none" /\ c.priorFailed) =>
         IF c.prior /\ ~c.priorEvicted
         THEN ServedFromCache(c)
         ELSE ~c.hit /\ c.reqs = NumRequests(c.req)

\* the count of a sensor has failed to resolve, and the call that follows
\* has issued the second request of the run, the cache being empty
C28_Witness ==
  \E c \in calls :
    /\ c.req = ReqCount(1) /\ c.priorFailed /\ ~c.overlaps
    /\ c.pc = "waiting" /\ ~c.hit
    /\ netCount = 2 /\ calls = {c}
    /\ apiCache = <<>>

\* C30: a fetcher looks the cache up before its request and writes it after
\* the response, and requests in flight are not shared: two calls with the
\* same parameters of which the second starts while the first awaits its
\* response each issue their own request(s) and each return the result of
\* their own response, and the cache entry holds what the call that stored
\* last has stored.
C30_OverlappingCalls ==
  /\ \A r \in FetchRequests :
       /\ Cardinality({c \in calls : c.req = r}) * NumRequests(r) <= netCount
       /\ \A c1, c2 \in calls :
            (c1.req = r /\ c2.req = r /\ c1 # c2) =>
              /\ c1.nth # c2.nth
              /\ c1.overlaps \/ c2.overlaps
              /\ ~c1.hit /\ c1.reqs = NumRequests(r) /\ c1.pc = "waiting"
  /\ (lastCall.pc = "done" /\ lastCall.outcome = "ok") =>
       /\ lastCall.result =
            OkResult(lastCall.req, Decode(lastCall.req, Payload(lastCall.req, now)))
       /\ HasKey(apiCache, cacheKey(lastCall.req))
       /\ MapGet(apiCache, cacheKey(lastCall.req)) =
            [key |-> cacheKey(lastCall.req),
             data |-> Decode(lastCall.req, Payload(lastCall.req, now)),
             timestamp |-> now, ttl |-> cacheTtl(lastCall.req)]

\* of two overlapping listSensors calls the second has received its response
\* last, after the first and a clock step later than the calls started: two
\* requests were issued and the cache holds the second call's list
C30_Witness ==
  /\ lastCall.pc = "done" /\ lastCall.outcome = "ok"
  /\ lastCall.req = ReqSensors
  /\ lastCall.overlaps /\ lastCall.nth = 1
  /\ calls = {} /\ netCount = 2
  /\ now > 0
  /\ apiCache = <<[key |-> cacheKey(ReqSensors), data |-> lastCall.result.data,
                   timestamp |-> now, ttl |-> SensorsTtl]>>
  /\ lastCall.result.data # Decode(ReqSensors, Payload(ReqSensors, 0))

====
